---------------------------- MODULE Spec2Model ----------------------------
(***************************************************************************)
(* A model of the retrieval core of cursor10x-mcp (src/index.js): the      *)
(* fingerprint store and similarity search, the background task queue and  *)
(* the detached code indexer, and the context assembler.                    *)
(*                                                                         *)
(* Numbers.  A Float32 component is modelled by a small integer and a      *)
(* cosine similarity by its value in hundredths (truncated toward zero),   *)
(* so 0.7 is 70 and 1.0 is 100.  The order of two similarities and every   *)
(* comparison with a threshold given in hundredths are those of the code.  *)
(***************************************************************************)
EXTENDS Integers, Sequences, FiniteSets, TLC

VARIABLES
    vectors,        \* the vectors table: rows in rowid order
    messages,       \* the messages table
    active_files,   \* the active_files table
    milestones,     \* the milestones table
    decisions,      \* the decisions table
    requirements,   \* the requirements table
    episodes,       \* the episodes table
    code_files,     \* the code_files table
    code_snippets,  \* the code_snippets table
    nextVectorId,   \* the AUTOINCREMENT counter of the vectors table
    clock,          \* Date.now()
    response,       \* what the last completed call returned to its caller
    queue,          \* backgroundTasks.queue
    isProcessing,   \* backgroundTasks.isProcessing
    timers,         \* pending setTimeout(processQueue, 100) wake-ups
    detached,       \* pending setTimeout(indexCodeFile, 0) callbacks of trackActiveFile
    runs,           \* the runs and calls in progress, each at one of its awaits
    started,        \* the queued tasks in the order processQueue started them
    failed,         \* the queued tasks that threw
    nextTask,       \* number of addTask calls so far
    tracked,        \* number of trackActiveFile calls so far
    maintained,     \* what the last performVectorMaintenance run returned
    nextSnippetId,  \* the AUTOINCREMENT counter of the code_snippets table
    indexings,      \* the whole indexCodeFile runs so far, in order
    useInMemory,    \* the in-memory fallback is in use: the tables are inMemoryStore's arrays
    fatal           \* the uncaughtException handler has run: process.exit(1)

vars == <<vectors, nextVectorId, clock, messages, active_files, milestones, decisions, requirements,
          episodes, code_files, code_snippets, response, queue, isProcessing, timers, detached, runs,
          started, failed, nextTask, tracked, maintained, nextSnippetId, indexings,
          useInMemory, fatal>>

storeVars == <<messages, active_files, milestones, decisions, requirements, episodes,
               code_files, code_snippets, nextSnippetId, useInMemory>>
queueVars == <<queue, isProcessing, timers, detached, runs, started, failed, nextTask,
               tracked, maintained, indexings, fatal>>

Null == "null"

-----------------------------------------------------------------------------
(* Sequence helpers *)

Range(s) == {s[i] : i \in 1..Len(s)}

\* Array.prototype.slice(0, n) for n >= 0
Slice(s, n) == SubSeq(s, 1, IF n < Len(s) THEN n ELSE Len(s))

\* Array.prototype.sort((a, b) => key(b) - key(a)) on a list of <<key, item>>
\* pairs: the items, descending by key, stable.  An item's place is one more
\* than the number of items with a greater key or with the same key and an
\* earlier position.
SortDesc(pairs) ==
    LET n == Len(pairs)
        place == [i \in 1..n |->
                    1 + Cardinality({j \in 1..n :
                                       \/ pairs[j][1] > pairs[i][1]
                                       \/ pairs[j][1] = pairs[i][1] /\ j < i})]
    IN  [r \in 1..n |-> pairs[CHOOSE i \in 1..n : place[i] = r][2]]

-----------------------------------------------------------------------------
(* Vectors and their stored form *)

\* Similarities are kept in hundredths.
Scale == 10 * 10

\* Math.sqrt, rounded down; the argument is at most Scale * Scale.
ISqrtTable ==
    [n \in 0..(Scale * Scale) |-> CHOOSE r \in 0..Scale : r * r <= n /\ n < (r + 1) * (r + 1)]

ISqrt(n) == ISqrtTable[n]

RECURSIVE Dot(_, _)
Dot(a, b) == IF a = <<>> THEN 0 ELSE Head(a) * Head(b) + Dot(Tail(a), Tail(b))

\* A similarity that takes a vector without direction, or of another length,
\* to point the same way as any other.
SimilarityOfAny(a, b) == Scale

\* cosineSimilarity: 0 for different lengths and for a zero norm.
cosineSimilarity(a, b) ==
    IF Len(a) # Len(b) THEN 0
    ELSE LET dotProduct == Dot(a, b)
             normA2 == Dot(a, a)
             normB2 == Dot(b, b)
         IN  IF normA2 = 0 \/ normB2 = 0 THEN 0
             ELSE LET mag == ISqrt((Scale * Scale * dotProduct * dotProduct)
                                    \div (normA2 * normB2))
                  IN  IF dotProduct < 0 THEN -mag ELSE mag

\* The four little-endian bytes of one 32-bit element (two's complement; \div
\* rounds down, so the high bytes of a negative element are its sign extension).
ElemBytes(x) ==
    <<x % 256, (x \div 256) % 256, (x \div 65536) % 256, (x \div 16777216) % 256>>

\* Buffer.from(vector.buffer): the elements' bytes, contiguous.
RECURSIVE vectorToBuffer(_)
vectorToBuffer(v) ==
    IF v = <<>> THEN <<>> ELSE ElemBytes(Head(v)) \o vectorToBuffer(Tail(v))

ElemOf(b, i) ==
    LET top == IF b[4*i] >= 128 THEN b[4*i] - 256 ELSE b[4*i]
    IN  b[4*i - 3] + 256 * b[4*i - 2] + 65536 * b[4*i - 1] + 16777216 * top

\* new Float32Array(buffer.buffer, buffer.byteOffset, buffer.length / 4)
bufferToVector(b) == [i \in 1..(Len(b) \div 4) |-> ElemOf(b, i)]

-----------------------------------------------------------------------------
(* Fingerprint store and similarity search *)

MaxVectors == 3                 \* rows ever inserted in the vectors table

StoredVecs == {<<1, 0>>, <<2, 1>>, <<1, 1>>}
QueryVecs == {<<1, 0>>, <<0, 1>>}
SearchTypes == {"user_message", "code_file"}
Limits == {1, 2}
Thresholds == {70, 80}          \* 0.7 (the default) and 0.8

\* A store that replaces the row of the pair when there is one.
storeEmbeddingOnce(rows, id, contentId, contentType, vector, now) ==
    Append(SelectSeq(rows, LAMBDA row : row.content_id # contentId
                                        \/ row.content_type # contentType),
           [id |-> id, content_id |-> contentId, content_type |-> contentType,
            vector |-> vectorToBuffer(vector), created_at |-> now])

\* storeEmbedding: one INSERT, no look at the rows already there.
storeEmbedding(rows, id, contentId, contentType, vector, now) ==
    Append(rows, [id |-> id, content_id |-> contentId, content_type |-> contentType,
                  vector |-> vectorToBuffer(vector), created_at |-> now])

\* `if (contentType)`: null selects every row.
TypeMatches(row, contentType) == contentType = Null \/ row.content_type = contentType

BySimilarity(rows) == [i \in 1..Len(rows) |-> <<rows[i].similarity, rows[i]>>]

\* The store's native top-K: the k rows nearest to q, nearest first, each with
\* its similarity; rows at the same distance stay in rowid order.
VectorTopK(rows, q, k) ==
    Slice(SortDesc(BySimilarity([i \in 1..Len(rows) |->
                      [id |-> rows[i].id, content_id |-> rows[i].content_id,
                       content_type |-> rows[i].content_type,
                       similarity |-> cosineSimilarity(q, bufferToVector(rows[i].vector))]])),
          k)

\* The index-accelerated query: vector_top_k(idx, q, limit * 2) joined to
\* vectors, WHERE content_type = ? AND similarity >= ?, LIMIT limit.
IndexQuery(rows, q, contentType, limit, threshold) ==
    LET candidates == VectorTopK(rows, q, limit * 2)
        Keep(r) == TypeMatches(r, contentType) /\ r.similarity >= threshold
    IN  Slice(SelectSeq(candidates, Keep), limit)

\* The same scan with the threshold filter left out.
LinearScanNoFilter(rows, q, contentType, limit, threshold) ==
    LET OfType(r) == TypeMatches(r, contentType)
        allVectors == SelectSeq(rows, OfType)
        withSimilarity == [i \in 1..Len(allVectors) |->
            [id |-> allVectors[i].id, content_id |-> allVectors[i].content_id,
             content_type |-> allVectors[i].content_type, vector |-> allVectors[i].vector,
             similarity |-> cosineSimilarity(q, bufferToVector(allVectors[i].vector))]]
    IN  Slice(SortDesc(BySimilarity(withSimilarity)), limit)

\* The same scan with the sort left out.
LinearScanNoSort(rows, q, contentType, limit, threshold) ==
    LET OfType(r) == TypeMatches(r, contentType)
        allVectors == SelectSeq(rows, OfType)
        withSimilarity == [i \in 1..Len(allVectors) |->
            [id |-> allVectors[i].id, content_id |-> allVectors[i].content_id,
             content_type |-> allVectors[i].content_type, vector |-> allVectors[i].vector,
             similarity |-> cosineSimilarity(q, bufferToVector(allVectors[i].vector))]]
        AtLeast(r) == r.similarity >= threshold
    IN  Slice(SelectSeq(withSimilarity, AtLeast), limit)

\* The fallback: SELECT ... FROM vectors [WHERE content_type = ?], the cosine
\* of every row computed in process, filter, sort, slice.
LinearScan(rows, q, contentType, limit, threshold) ==
    LET OfType(r) == TypeMatches(r, contentType)
        allVectors == SelectSeq(rows, OfType)
        withSimilarity == [i \in 1..Len(allVectors) |->
            [id |-> allVectors[i].id, content_id |-> allVectors[i].content_id,
             content_type |-> allVectors[i].content_type, vector |-> allVectors[i].vector,
             similarity |-> cosineSimilarity(q, bufferToVector(allVectors[i].vector))]]
        AtLeast(r) == r.similarity >= threshold
    IN  Slice(SortDesc(BySimilarity(SelectSeq(withSimilarity, AtLeast))), limit)

\* What the store does to one findSimilarVectors call: it answers the
\* vector_top_k query; or that query fails and the plain read of the vectors
\* table succeeds; or both fail.
SearchFaults == {"none", "index", "all"}

\* findSimilarVectors: the result and the path that produced it.
findSimilarVectors(rows, q, contentType, limit, threshold, fault) ==
    IF fault = "none"
    THEN [path |-> "index", results |-> IndexQuery(rows, q, contentType, limit, threshold)]
    ELSE IF fault = "index"
    THEN [path |-> "scan", results |-> LinearScan(rows, q, contentType, limit, threshold)]
    ELSE [path |-> "none", results |-> <<>>]

NoResponse == [op |-> "none"]

\* The caller issues its calls one after the other: it reads a response before
\* it sends the next call.
Idle == response = NoResponse

ClientReads ==
    /\ ~Idle
    /\ response' = NoResponse
    /\ UNCHANGED <<vectors, nextVectorId, clock, storeVars, queueVars>>

\* manageVector store
ManageVectorStore(contentId, contentType, vector) ==
    /\ Idle
    /\ nextVectorId <= MaxVectors
    /\ vectors' = storeEmbedding(vectors, nextVectorId, contentId, contentType, vector, clock)
    /\ nextVectorId' = nextVectorId + 1
    /\ clock' = clock + 1
    /\ response' = [op |-> "store", isError |-> FALSE]
    /\ UNCHANGED <<storeVars, queueVars>>

\* manageVector search
ManageVectorSearch(q, contentType, limit, threshold, fault) ==
    /\ Idle
    /\ LET found == findSimilarVectors(vectors, q, contentType, limit, threshold, fault)
       IN  response' = [op |-> "search", isError |-> FALSE, query |-> q,
                        contentType |-> contentType, limit |-> limit,
                        threshold |-> threshold, path |-> found.path,
                        results |-> found.results]
    /\ UNCHANGED <<vectors, nextVectorId, clock, storeVars, queueVars>>

InitStore ==
    /\ vectors = <<>>
    /\ nextVectorId = 1
    /\ clock = 1
    /\ messages = <<>>
    /\ active_files = <<>>
    /\ milestones = <<>>
    /\ decisions = <<>>
    /\ requirements = <<>>
    /\ episodes = <<>>
    /\ code_files = <<>>
    /\ code_snippets = <<>>
    /\ nextSnippetId = Len(code_snippets) + 1
    /\ useInMemory = FALSE
    /\ response = NoResponse

InitQueue ==
    /\ queue = <<>>
    /\ isProcessing = FALSE
    /\ timers = 0
    /\ detached = <<>>
    /\ runs = {}
    /\ started = <<>>
    /\ failed = {}
    /\ nextTask = 0
    /\ tracked = 0
    /\ maintained = [ran |-> FALSE]
    /\ fatal = FALSE
    /\ indexings = <<>>

InitSearch == InitStore /\ InitQueue

NextSearch ==
    \/ \E t \in SearchTypes, v \in StoredVecs : ManageVectorStore(1, t, v)
    \/ \E q \in QueryVecs, t \in SearchTypes \cup {Null}, l \in Limits, th \in Thresholds,
          fault \in SearchFaults :
          ManageVectorSearch(q, t, l, th, fault)
    \/ ClientReads

SpecSearch == InitSearch /\ [][NextSearch]_vars

-----------------------------------------------------------------------------
(* Claims about similarity search *)

IsSearch == response.op = "search"

SortedDesc(res) == \A i \in 1..Len(res) - 1 : res[i].similarity >= res[i + 1].similarity

Ids(res) == {res[i].id : i \in 1..Len(res)}

\* No two stored rows are equally similar to q: no tie for a path to break.
NoTies(rows, q) ==
    \A i, j \in 1..Len(rows) :
        i # j => cosineSimilarity(q, bufferToVector(rows[i].vector))
                   # cosineSimilarity(q, bufferToVector(rows[j].vector))

\* C2: for the same store and arguments the index-accelerated path returns the
\* records the linear scan returns, with the same similarities in the same
\* places (stated for the stores in which no two rows tie, where the order of
\* equal-similarity entries is not in play).
C2_IndexEqualsScan ==
    (IsSearch /\ response.path = "index" /\ NoTies(vectors, response.query)) =>
        LET scan == LinearScan(vectors, response.query, response.contentType,
                               response.limit, response.threshold)
        IN  /\ Ids(response.results) = Ids(scan)
            /\ Len(response.results) = Len(scan)
            /\ \A i \in 1..Len(scan) : response.results[i].similarity = scan[i].similarity

\* The rows a search for (q, contentType, threshold) may return.
Matching(rows, q, contentType, threshold) ==
    {i \in 1..Len(rows) :
        /\ TypeMatches(rows[i], contentType)
        /\ cosineSimilarity(q, bufferToVector(rows[i].vector)) >= threshold}

\* res is the limit highest-similarity rows of the requested type at or above
\* the threshold.
IsTopMatches(res, rows, q, contentType, limit, threshold) ==
    LET M == Matching(rows, q, contentType, threshold)
        Sim(i) == cosineSimilarity(q, bufferToVector(rows[i].vector))
        Chosen == {i \in M : rows[i].id \in Ids(res)}
    IN  /\ Len(res) = IF Cardinality(M) < limit THEN Cardinality(M) ELSE limit
        /\ Cardinality(Ids(res)) = Len(res)
        /\ \A j \in 1..Len(res) :
              \E i \in M : rows[i].id = res[j].id /\ res[j].similarity = Sim(i)
        /\ \A i \in M \ Chosen : \A j \in Chosen : Sim(i) <= Sim(j)

ResponseIsTop ==
    IsTopMatches(response.results, vectors, response.query, response.contentType,
                 response.limit, response.threshold)

\* C3 as stated: whenever the index query failed, the call returns the
\* linear-scan result and surfaces no error.
C3_FallbackAlwaysScan ==
    (IsSearch /\ response.path # "index") => (~response.isError /\ ResponseIsTop)

\* C3 amended: when the index query failed the call surfaces no error; it
\* returns the top matches when the fallback's read of the vectors table
\* succeeded and the empty list when that read failed too.
C3_FallbackScanOrEmpty ==
    (IsSearch /\ response.path # "index") =>
        /\ ~response.isError
        /\ response.path = "scan" => ResponseIsTop
        /\ response.path = "none" => response.results = <<>>

\* The fallback returned a truncated, non-empty result.
C3_Witness ==
    /\ IsSearch
    /\ response.path = "scan"
    /\ Len(response.results) = response.limit
    /\ Cardinality(Matching(vectors, response.query, response.contentType,
                            response.threshold)) > response.limit

-----------------------------------------------------------------------------
(* The background task queue and the code indexer *)

MaxTasks == 4                   \* addTask calls in one behaviour of the queue alone
MaxIndexerTasks == 2            \* addTask calls in one behaviour of queue and tracker
MaxTracks == 2                  \* trackActiveFile calls in one behaviour

Files == {"a.js", "b.js"}
FileActions == {"edit", "close"}

ActiveFilesFetched == 10        \* LIMIT of triggerCodeIndexing's active_files read

\* indexCodeFile suspends at four awaits: the SELECT of the code_files row,
\* its UPDATE or INSERT, storeEmbedding, extractCodeSnippets.  A run that
\* returned before its first await is "returned" until its promise settles.
NextAwait(pc) ==
    CASE pc = "select" -> "upsert"
      [] pc = "upsert" -> "store"
      [] pc = "store" -> "extract"
      [] OTHER -> "returned"

\* An entry that skips neither the close action nor the unreadable file.
IndexEntryAlways(action, readable) == "select"

\* indexCodeFile up to its first await: false at once for a close action or a
\* file that cannot be read (readFileSync throws, or returns the empty string).
IndexEntry(action, readable) ==
    IF action = "close" \/ ~readable THEN "returned" ELSE "select"

\* The runs that are between their first await and their return.
InProgress == {r \in runs : r.pc # "returned"}

\* processQueue's guard with the isProcessing test left out.
CanStartAlways(processing, q) == q # <<>>

\* processQueue's guard: `if (this.isProcessing || this.queue.length === 0) return`
CanStart(processing, q) == ~processing /\ q # <<>>

\* Array.prototype.pop in place of shift.
Pop(q) == [task |-> q[Len(q)], rest |-> SubSeq(q, 1, Len(q) - 1)]

\* `this.queue.shift()`
Shift(q) == [task |-> Head(q), rest |-> Tail(q)]

\* A finally block that never re-arms the queue.
NoWakeUp(q) == 0

\* finally: `if (this.queue.length > 0) setTimeout(() => this.processQueue(), 100)`
WakeUps(q) == IF Len(q) > 0 THEN 1 ELSE 0

\* A process in which no catch block takes anything.
Uncaught(frame) == FALSE

\* The try blocks around background work whose catch takes every exception
\* and throws none: those of indexCodeFile, extractCodeSnippets,
\* triggerCodeIndexing and performVectorMaintenance around their own bodies,
\* processQueue's around the task it awaits, the one in the setTimeout callback
\* of trackActiveFile, and the .catch on the promise of triggerCodeIndexing in
\* the setTimeout callback of initConversation.
Caught(frame) ==
    frame \in {"indexCodeFile", "extractCodeSnippets", "triggerCodeIndexing",
               "performVectorMaintenance", "processQueue", "trackCallback",
               "triggerCallback"}

\* An exception thrown inside these frames (innermost first) is taken by none
\* of them: the promise of the outermost rejects with nothing to handle it,
\* which Node raises as an uncaught exception.
Escapes(frames, threw) == threw /\ \A i \in 1..Len(frames) : ~Caught(frames[i])

\* What a queued task is when processQueue reaches its first await:
\* indexCodeFile(file, action), or the task of scheduleVectorMaintenance,
\* `async () => { await performVectorMaintenance() }`.
TaskEntry(task, readable) ==
    IF task.action = "maintain" THEN "maintain" ELSE IndexEntry(task.action, readable)

QueueState == [queue |-> queue, isProcessing |-> isProcessing, runs |-> runs,
               started |-> started]

\* processQueue from its entry to the await of the task it starts.
processQueue(s, readable) ==
    IF ~CanStart(s.isProcessing, s.queue) THEN s
    ELSE LET sh == Shift(s.queue)
         IN  [queue |-> sh.rest,
              isProcessing |-> TRUE,
              runs |-> s.runs \cup {[via |-> "queue", id |-> sh.task.id,
                                     file |-> sh.task.file,
                                     pc |-> TaskEntry(sh.task, readable)]},
              started |-> Append(s.started, sh.task.id)]

\* addTask: push, then processQueue unless a task is being processed.
addTask(s, task, readable) ==
    LET pushed == [s EXCEPT !.queue = Append(@, task)]
    IN  IF ~pushed.isProcessing THEN processQueue(pushed, readable) ELSE pushed

\* The loop of triggerCodeIndexing over filesToIndex; n tasks were added before.
RECURSIVE AddTasks(_, _, _, _)
AddTasks(s, batch, n, readable) ==
    IF batch = <<>> THEN s
    ELSE AddTasks(addTask(s, [id |-> n + 1, file |-> Head(batch), action |-> "update"],
                          readable),
                  Tail(batch), n + 1, readable)

ByLastAccessed(rows) == [i \in 1..Len(rows) |-> <<rows[i].last_accessed, rows[i]>>]

\* SELECT filename FROM active_files ORDER BY last_accessed DESC LIMIT 10
RecentFilenames ==
    LET rows == Slice(SortDesc(ByLastAccessed(active_files)), ActiveFilesFetched)
    IN  [i \in 1..Len(rows) |-> rows[i].filename]

\* The entries of s at the positions in keep, in order.
RECURSIVE Pick(_, _, _)
Pick(s, keep, i) ==
    IF i > Len(s) THEN <<>>
    ELSE (IF i \in keep THEN <<s[i]>> ELSE <<>>) \o Pick(s, keep, i + 1)

\* triggerCodeIndexing, run from the timer initConversation sets for a
\* code-related message: the recently active files that are not indexed or are
\* out of date (keep: what the code_files rows and the files' mtimes select)
\* are queued, in the order read.
TriggerCodeIndexing(keep, readable, maxTasks) ==
    LET batch == Pick(RecentFilenames, keep, 1)
        s == AddTasks(QueueState, batch, nextTask, readable)
    IN  /\ batch # <<>>
        /\ nextTask + Len(batch) <= maxTasks
        /\ queue' = s.queue
        /\ isProcessing' = s.isProcessing
        /\ runs' = s.runs
        /\ started' = s.started
        /\ nextTask' = nextTask + Len(batch)
        /\ UNCHANGED <<vectors, nextVectorId, clock, storeVars, response, timers,
                       detached, failed, tracked, maintained, fatal, indexings>>

\* The wake-up set by a finally block fires: processQueue().
TimerFire(readable) ==
    LET s == processQueue(QueueState, readable)
    IN  /\ timers > 0
        /\ timers' = timers - 1
        /\ queue' = s.queue
        /\ isProcessing' = s.isProcessing
        /\ runs' = s.runs
        /\ started' = s.started
        /\ UNCHANGED <<vectors, nextVectorId, clock, storeVars, response, detached,
                       failed, nextTask, tracked, maintained, fatal, indexings>>

\* An upsert that inserts a row whether or not the filename has one.
InsertActiveFile(rows, filename, now) ==
    Append(rows, [id |-> Len(rows) + 1, filename |-> filename, last_accessed |-> now])

\* INSERT INTO active_files ... ON CONFLICT(filename) DO UPDATE
UpsertActiveFile(rows, filename, now) ==
    IF \E i \in 1..Len(rows) : rows[i].filename = filename
    THEN [i \in 1..Len(rows) |->
            IF rows[i].filename = filename
            THEN [rows[i] EXCEPT !.last_accessed = now] ELSE rows[i]]
    ELSE Append(rows, [id |-> Len(rows) + 1, filename |-> filename, last_accessed |-> now])

\* The in-memory branch: findIndex by filename, then the entry is rewritten
\* in place or a new one is pushed.
UpsertInMemoryFile(entries, filename, action, now) ==
    IF \E i \in 1..Len(entries) : entries[i].filename = filename
    THEN LET existingFileIndex == CHOOSE i \in 1..Len(entries) :
                                    /\ entries[i].filename = filename
                                    /\ \A j \in 1..(i - 1) : entries[j].filename # filename
         IN  [entries EXCEPT ![existingFileIndex] =
                    [@ EXCEPT !.last_accessed = now, !.action = action]]
    ELSE Append(entries, [filename |-> filename, action |-> action, last_accessed |-> now])

TrackFaults == {"none", "upsert", "episode"}

\* trackActiveFile.  In database mode: the upsert, the episode, the detached
\* indexCodeFile behind setTimeout(0), the response; fault is the statement
\* that throws, if one does.  In in-memory mode: the entry, the episode, the
\* response; nothing there throws and no indexing is started.
TrackActiveFile(filename, action, fault) ==
    /\ Idle
    /\ tracked < MaxTracks
    /\ useInMemory => fault = "none"
    /\ tracked' = tracked + 1
    /\ clock' = clock + 1
    /\ active_files' = IF fault = "upsert" THEN active_files
                       ELSE IF useInMemory
                       THEN UpsertInMemoryFile(active_files, filename, action, clock)
                       ELSE UpsertActiveFile(active_files, filename, clock)
    /\ episodes' = IF fault # "none" THEN episodes
                   ELSE IF useInMemory
                   THEN Append(episodes,
                               [actor |-> "user", action |-> action, content |-> filename,
                                timestamp |-> clock, importance |-> "low",
                                context |-> "file-tracking"])
                   ELSE Append(episodes,
                               [id |-> Len(episodes) + 1, actor |-> "user",
                                action |-> action, content |-> filename,
                                timestamp |-> clock, importance |-> "low",
                                context |-> "file-tracking"])
    /\ detached' = IF fault # "none" \/ useInMemory THEN detached
                   ELSE Append(detached, [id |-> tracked + 1, file |-> filename,
                                          action |-> action])
    /\ response' = [op |-> "trackActiveFile", isError |-> fault # "none"]
    /\ UNCHANGED <<vectors, nextVectorId, messages, milestones, decisions, requirements,
                   code_files, code_snippets, queue, isProcessing, timers, runs, started,
                   failed, nextTask, maintained, fatal, nextSnippetId, indexings, useInMemory>>

\* The setTimeout(0) callback of trackActiveFile: indexCodeFile(filename, action),
\* called directly.
DetachedFire(readable) ==
    /\ detached # <<>>
    /\ detached' = Tail(detached)
    /\ LET d == Head(detached)
           pc == IndexEntry(d.action, readable)
       IN  runs' = IF pc = "returned" THEN runs
                   ELSE runs \cup {[via |-> "timer", id |-> d.id, file |-> d.file,
                                    pc |-> pc]}
    /\ UNCHANGED <<vectors, nextVectorId, clock, storeVars, response, queue,
                   isProcessing, timers, started, failed, nextTask, tracked, maintained, fatal, indexings>>

\* The statement a run awaits completes and the run goes on to its next await.
RunStep(r) ==
    /\ r \in InProgress
    /\ r.pc # "extract"
    /\ runs' = (runs \ {r}) \cup {[r EXCEPT !.pc = NextAwait(r.pc)]}
    /\ UNCHANGED <<vectors, nextVectorId, clock, storeVars, response, queue,
                   isProcessing, timers, detached, started, failed, nextTask, tracked, maintained, fatal, indexings>>

\* A run ends: its last await completes, or a statement fails and the catch
\* returns false, or (threw) the task's promise rejects.  For a queued task
\* processQueue's catch and finally follow.
RunEnds(r, threw) ==
    /\ r \in runs
    /\ runs' = runs \ {r}
    /\ IF r.via = "queue"
       THEN /\ isProcessing' = FALSE
            /\ timers' = timers + WakeUps(queue)
            /\ failed' = IF threw THEN failed \cup {r.id} ELSE failed
            /\ fatal' = (fatal \/ Escapes(<<"processQueue">>, threw))
       ELSE /\ ~threw
            /\ UNCHANGED <<isProcessing, timers, failed, fatal>>
    /\ UNCHANGED <<vectors, nextVectorId, clock, storeVars, response, queue, detached,
                   started, nextTask, tracked, maintained, indexings>>

QueuedRunEnds == \E r \in runs, threw \in BOOLEAN : r.via = "queue" /\ RunEnds(r, threw)

\* The queue alone, from the state in which both files have been tracked (with
\* a close action, which starts no indexing) and nothing has been queued yet.
InitTasks ==
    /\ InitQueue
    /\ vectors = <<>>
    /\ nextVectorId = 1
    /\ clock = 3
    /\ messages = <<>>
    /\ active_files = <<[id |-> 1, filename |-> "a.js", last_accessed |-> 1],
                        [id |-> 2, filename |-> "b.js", last_accessed |-> 2]>>
    /\ milestones = <<>>
    /\ decisions = <<>>
    /\ requirements = <<>>
    /\ episodes = <<[id |-> 1, actor |-> "user", action |-> "close", content |-> "a.js",
                     timestamp |-> 1, importance |-> "low", context |-> "file-tracking"],
                    [id |-> 2, actor |-> "user", action |-> "close", content |-> "b.js",
                     timestamp |-> 2, importance |-> "low", context |-> "file-tracking"]>>
    /\ code_files = <<>>
    /\ code_snippets = <<>>
    /\ nextSnippetId = Len(code_snippets) + 1
    /\ useInMemory = FALSE
    /\ response = NoResponse

NextTasks ==
    \/ \E keep \in SUBSET (1..Cardinality(Files)), readable \in BOOLEAN :
          TriggerCodeIndexing(keep, readable, MaxTasks)
    \/ \E readable \in BOOLEAN : TimerFire(readable)
    \/ \E r \in runs : RunStep(r)
    \/ \E r \in runs, threw \in BOOLEAN : RunEnds(r, threw)

SpecTasks == InitTasks /\ [][NextTasks]_vars

\* The event loop runs every timer that is due, and every started task
\* terminates.
FairTasks ==
    /\ SpecTasks
    /\ WF_vars(\E readable \in BOOLEAN : TimerFire(readable))
    /\ WF_vars(QueuedRunEnds)

\* The queue together with trackActiveFile and its detached indexing.
InitIndexer == InitStore /\ InitQueue

NextIndexer ==
    \/ \E f \in Files, a \in FileActions, fault \in TrackFaults : TrackActiveFile(f, a, fault)
    \/ \E readable \in BOOLEAN : DetachedFire(readable)
    \/ \E keep \in SUBSET (1..Cardinality(Files)), readable \in BOOLEAN :
          TriggerCodeIndexing(keep, readable, MaxIndexerTasks)
    \/ \E readable \in BOOLEAN : TimerFire(readable)
    \/ \E r \in runs : RunStep(r)
    \/ \E r \in runs, threw \in BOOLEAN : RunEnds(r, threw)
    \/ ClientReads

SpecIndexer == InitIndexer /\ [][NextIndexer]_vars

-----------------------------------------------------------------------------
(* Claims about the task queue and the indexing runs *)

QueuedRuns == {r \in runs : r.via = "queue"}

\* C4: two indexCodeFile runs are never in progress at the same time, whether
\* trackActiveFile or the background queue started them.
C4_OneIndexingRun == Cardinality(InProgress) <= 1

\* C5: at most one queued task is executing, and isProcessing is true while it
\* is.
C5_SingleWorker ==
    /\ Cardinality(QueuedRuns) <= 1
    /\ QueuedRuns # {} => isProcessing

\* A task is executing while a wake-up is pending and another task waits.
C5_Witness == QueuedRuns # {} /\ timers > 0 /\ queue # <<>>

\* C6: the tasks start in the order in which addTask was called.
C6_Fifo == started = [i \in 1..Len(started) |-> i]

\* Three tasks have started, the third while a wake-up was still pending.
C6_Witness == Len(started) >= 3 /\ timers > 0 /\ QueuedRuns # {}

\* C7: every task added is eventually started, and none is started twice, also
\* behind a task that threw.
C7_EveryTaskStartsOnce ==
    /\ \A t \in 1..MaxTasks : [](nextTask >= t => <>(t \in Range(started)))
    /\ [](Cardinality(Range(started)) = Len(started))

\* A task threw and a task queued behind it has started, with the queue idle
\* again.
C7_Witness ==
    /\ \E f \in failed : \E t \in Range(started) : t > f
    /\ ~isProcessing
    /\ queue = <<>>

-----------------------------------------------------------------------------
(* The context assembler (database mode) *)

MaxRows == 16                   \* rows a domain table may hold

MessagesFetched == 15           \* LIMIT of the messages read
MessagesKept == 5               \* slice(0, 5) of the messages
ContextFilesFetched == 10       \* LIMIT of the active_files read
FilesKept == 5                  \* slice(0, 5) of the files
LongTermFetched == 10           \* LIMIT of the milestones, decisions, requirements reads
LongTermKept == 3               \* slice(0, 3) of each long-term list
EpisodesFetched == 15           \* LIMIT of the episodes read
EpisodesKept == 5               \* slice(0, 5) of the episodes
DefaultThreshold == 50          \* scoreItemsByRelevance's threshold = 0.5
SemanticThreshold == 60         \* the 0.6 of the three findSimilarItems calls
SimilarMessagesLimit == 3
SimilarFilesLimit == 2
SimilarSnippetsLimit == 3

\* queryVector = null
NoVector == <<>>

\* The query texts of the model: a blank text and two words.
Texts == {" ", "alpha", "beta"}

\* `if (userMessage)`
Truthy(text) == text # Null /\ text # ""

\* createEmbedding is a deterministic hash of the lower-cased, trimmed text;
\* the model keeps its values on Texts.  A text that is empty once trimmed
\* hashes to the zero vector.
createEmbedding(text) ==
    CASE text = "alpha" -> <<1, 0>>
      [] text = "beta" -> <<1, 1>>
      [] OTHER -> <<0, 0>>

\* new Date(t).toISOString(): the string form of the instant t.
toISOString(t) == [iso |-> t]

\* A JSON number (in hundredths) and the JSON null of a relevance field.
Number(x) == [number |-> x]
JsNull == [null |-> TRUE]

\* `relevance: 0` in place of `x.relevance || null`.
RelevanceOrZero(item) == Number(0)

\* `x.relevance || null`: null for an item that was not scored and for a
\* relevance of 0.
OrNull(item) ==
    IF "relevance" \in DOMAIN item /\ item.relevance # 0
    THEN Number(item.relevance) ELSE JsNull

\* scoredX.map(x => ({...x, <field>: new Date(x.<field>).toISOString(),
\*                    relevance: x.relevance || null}))
Present(items, field) ==
    [i \in 1..Len(items) |->
        [relevance |-> OrNull(items[i])]
            @@ [items[i] EXCEPT ![field] = toISOString(@)]]

ByCreatedAt(rows) == [i \in 1..Len(rows) |-> <<rows[i].created_at, rows[i]>>]
ByTimestamp(rows) == [i \in 1..Len(rows) |-> <<rows[i].timestamp, rows[i]>>]
ByRelevance(rows) == [i \in 1..Len(rows) |-> <<rows[i].relevance, rows[i]>>]

\* WHERE importance IN ('high', 'medium', 'critical')
IsImportant(row) == row.importance \in {"high", "medium", "critical"}

\* The messages read without its ORDER BY: rowid order.
ReadMessagesUnordered(rows) == Slice(rows, MessagesFetched)

\* The messages read without its LIMIT.
ReadAllMessages(rows) == SortDesc(ByCreatedAt(rows))

\* SELECT ... FROM messages ORDER BY created_at DESC LIMIT 15
ReadMessages(rows) == Slice(SortDesc(ByCreatedAt(rows)), MessagesFetched)

\* SELECT ... FROM active_files ORDER BY last_accessed DESC LIMIT 10
ReadActiveFiles(rows) == Slice(SortDesc(ByLastAccessed(rows)), ContextFilesFetched)

\* SELECT ... FROM milestones ORDER BY created_at DESC LIMIT 10
ReadMilestones(rows) == Slice(SortDesc(ByCreatedAt(rows)), LongTermFetched)

\* SELECT ... FROM decisions WHERE importance IN (...) ORDER BY created_at DESC LIMIT 10
ReadDecisions(rows) ==
    Slice(SortDesc(ByCreatedAt(SelectSeq(rows, IsImportant))), LongTermFetched)

\* SELECT ... FROM requirements WHERE importance IN (...) ORDER BY created_at DESC LIMIT 10
ReadRequirements(rows) ==
    Slice(SortDesc(ByCreatedAt(SelectSeq(rows, IsImportant))), LongTermFetched)

\* SELECT ... FROM episodes ORDER BY timestamp DESC LIMIT 15
ReadEpisodes(rows) == Slice(SortDesc(ByTimestamp(rows)), EpisodesFetched)

\* scoreItemsByRelevance with the filter left out.
scoreItemsNoFilter(items, queryVector, rows, primaryType, secondaryType, threshold, readable) ==
    IF items = <<>> \/ queryVector = NoVector THEN items
    ELSE IF ~readable THEN items
    ELSE LET OfTypes(v) ==
                 \/ v.content_type = primaryType
                 \/ Truthy(secondaryType) /\ v.content_type = secondaryType
             found == SelectSeq(rows, OfTypes)
             Has(id) == \E i \in 1..Len(found) : found[i].content_id = id
             Last(id) == CHOOSE i \in 1..Len(found) :
                             /\ found[i].content_id = id
                             /\ \A j \in (i + 1)..Len(found) : found[j].content_id # id
             Relevance(item) ==
                 IF Has(item.id)
                 THEN cosineSimilarity(queryVector,
                                       bufferToVector(found[Last(item.id)].vector))
                 ELSE 0
             scoredItems == [i \in 1..Len(items) |->
                                [relevance |-> Relevance(items[i])] @@ items[i]]
         IN  SortDesc(ByRelevance(scoredItems))

\* scoreItemsByRelevance.  rows: the vectors table; readable: whether its read
\* of that table answers (the catch returns the items as they came).
scoreItemsByRelevance(items, queryVector, rows, primaryType, secondaryType, threshold, readable) ==
    IF items = <<>> \/ queryVector = NoVector THEN items
    ELSE IF ~readable THEN items
    ELSE LET OfTypes(v) ==
                 \/ v.content_type = primaryType
                 \/ Truthy(secondaryType) /\ v.content_type = secondaryType
             found == SelectSeq(rows, OfTypes)
             Has(id) == \E i \in 1..Len(found) : found[i].content_id = id
             \* vectorMap.set: the last row of a content_id is the one kept
             Last(id) == CHOOSE i \in 1..Len(found) :
                             /\ found[i].content_id = id
                             /\ \A j \in (i + 1)..Len(found) : found[j].content_id # id
             Relevance(item) ==
                 IF Has(item.id)
                 THEN cosineSimilarity(queryVector,
                                       bufferToVector(found[Last(item.id)].vector))
                 ELSE 0
             scoredItems == [i \in 1..Len(items) |->
                                [relevance |-> Relevance(items[i])] @@ items[i]]
             AtLeast(item) == item.relevance >= threshold
         IN  SortDesc(ByRelevance(SelectSeq(scoredItems, AtLeast)))

\* findSimilarItems: the similar fingerprints, each with the fields of its
\* record when the SELECT by its content_id returns one.
findSimilarItems(queryVector, contentType, alternativeType, limit, threshold, fault) ==
    LET type1Results ==
            findSimilarVectors(vectors, queryVector, contentType, limit, threshold,
                               fault).results
        type2Results ==
            findSimilarVectors(vectors, queryVector, alternativeType, limit, threshold,
                               fault).results
        similarVectors ==
            IF Truthy(alternativeType)
            THEN Slice(SortDesc(BySimilarity(type1Results \o type2Results)), limit)
            ELSE type1Results
        Item(v) ==
            LET item == [id |-> v.content_id, type |-> v.content_type,
                         similarity |-> v.similarity]
                OfId(m) == m.id = v.content_id
                message == SelectSeq(messages, OfId)
                file == SelectSeq(code_files, OfId)
                \* code_snippets cs JOIN code_files cf ON cs.file_id = cf.id
                Joined(cs) == cs.id = v.content_id
                                 /\ \E i \in 1..Len(code_files) : code_files[i].id = cs.file_id
                snippet == SelectSeq(code_snippets, Joined)
                OfSnippet(cf) == cf.id = snippet[1].file_id
            IN  IF /\ v.content_type \in {"user_message", "assistant_message"}
                   /\ message # <<>>
                THEN [role |-> message[1].role, content |-> message[1].content,
                      created_at |-> toISOString(message[1].created_at),
                      importance |-> message[1].importance] @@ item
                ELSE IF v.content_type = "code_file" /\ file # <<>>
                THEN [path |-> file[1].file_path, language |-> file[1].language,
                      last_indexed |-> toISOString(file[1].last_indexed)] @@ item
                ELSE IF v.content_type = "code_snippet" /\ snippet # <<>>
                THEN [content |-> snippet[1].content,
                      file_path |-> SelectSeq(code_files, OfSnippet)[1].file_path,
                      lines |-> <<snippet[1].start_line, snippet[1].end_line>>,
                      symbol_type |-> snippet[1].symbol_type] @@ item
                ELSE item
    IN  [i \in 1..Len(similarVectors) |-> Item(similarVectors[i])]

\* snippet.file_path, undefined for a snippet whose record was not found
FilePathOf(s) == IF "file_path" \in DOMAIN s THEN s.file_path ELSE "undefined"

\* The keys of fileGroups in insertion order: the paths as first met.
RECURSIVE FirstSeen(_, _)
FirstSeen(snippets, seen) ==
    IF snippets = <<>> THEN <<>>
    ELSE LET p == FilePathOf(Head(snippets))
         IN  IF p \in seen THEN FirstSeen(Tail(snippets), seen)
             ELSE <<p>> \o FirstSeen(Tail(snippets), seen \cup {p})

\* A group whose relevance stays that of the snippet that opened it.
OpeningRelevance(members, relevance) == relevance

\* The forEach over a group's snippets: relevance starts at the similarity of
\* the snippet that opened the group and is raised by every greater one.
RECURSIVE GroupRelevance(_, _)
GroupRelevance(members, relevance) ==
    IF members = <<>> THEN relevance
    ELSE GroupRelevance(Tail(members),
                        IF Head(members).similarity > relevance
                        THEN Head(members).similarity ELSE relevance)

groupSimilarSnippetsByFile(snippets) ==
    LET paths == FirstSeen(snippets, {})
        Group(p) ==
            LET OfFile(s) == FilePathOf(s) = p
                members == SelectSeq(snippets, OfFile)
            IN  [file_path |-> p,
                 relevance |-> GroupRelevance(members, members[1].similarity),
                 snippets |-> members]
    IN  SortDesc(ByRelevance([i \in 1..Len(paths) |-> Group(paths[i])]))

\* {}
EmptyObject == [k \in {} |-> <<>>]

\* What the store does to one getComprehensiveContext call: it answers every
\* read, or the reads of one table fail.
ContextFaults == {"none", "messages", "active_files", "milestones", "decisions",
                  "requirements", "episodes", "vectors"}

\* An outer catch that records nothing.
NoCatch(context, message) == context

\* The outer catch: `context.error = error.message`
OuterCatch(context, message) == [error |-> message] @@ context

\* getComprehensiveContext: the snapshot it returns.  A failing read of a
\* domain table throws to the outer catch, which records the error and leaves
\* the partitions not yet assigned as they were created; a failing read of the
\* vectors table is caught inside scoreItemsByRelevance and findSimilarVectors.
getComprehensiveContext(userMessage, fault) ==
    LET queryVector == IF Truthy(userMessage) THEN createEmbedding(userMessage)
                       ELSE NoVector
        Top(items, primaryType, secondaryType, kept) ==
            IF queryVector # NoVector
            THEN Slice(scoreItemsByRelevance(items, queryVector, vectors, primaryType,
                                             secondaryType, DefaultThreshold,
                                             fault # "vectors"),
                       kept)
            ELSE Slice(items, kept)
        searchFault == IF fault = "vectors" THEN "all" ELSE "none"
        shortTermThrows == fault \in {"messages", "active_files"}
        longTermThrows ==
            shortTermThrows \/ fault \in {"milestones", "decisions", "requirements"}
        episodicThrows == longTermThrows \/ fault = "episodes"
        shortTerm ==
            [recentMessages |->
                 Present(Top(ReadMessages(messages), "user_message", "assistant_message",
                             MessagesKept), "created_at"),
             activeFiles |->
                 Present(Top(ReadActiveFiles(active_files), "code_file", Null, FilesKept),
                         "last_accessed")]
        longTerm ==
            [milestones |->
                 Present(Top(ReadMilestones(milestones), "milestone", Null, LongTermKept),
                         "created_at"),
             decisions |->
                 Present(Top(ReadDecisions(decisions), "decision", Null, LongTermKept),
                         "created_at"),
             requirements |->
                 Present(Top(ReadRequirements(requirements), "requirement", Null,
                             LongTermKept), "created_at")]
        episodic ==
            [recentEpisodes |->
                 Present(Top(ReadEpisodes(episodes), "episode", Null, EpisodesKept),
                         "timestamp")]
        semantic ==
            [similarMessages |->
                 findSimilarItems(queryVector, "user_message", "assistant_message",
                                  SimilarMessagesLimit, SemanticThreshold, searchFault),
             similarFiles |->
                 findSimilarItems(queryVector, "code_file", Null, SimilarFilesLimit,
                                  SemanticThreshold, searchFault),
             similarSnippets |->
                 groupSimilarSnippetsByFile(
                     findSimilarItems(queryVector, "code_snippet", Null,
                                      SimilarSnippetsLimit, SemanticThreshold,
                                      searchFault))]
        context ==
            [shortTerm |-> IF shortTermThrows THEN EmptyObject ELSE shortTerm,
             longTerm |-> IF longTermThrows THEN EmptyObject ELSE longTerm,
             episodic |-> IF episodicThrows THEN EmptyObject ELSE episodic,
             semantic |-> IF episodicThrows \/ queryVector = NoVector
                          THEN EmptyObject ELSE semantic,
             system |-> [healthy |-> TRUE, timestamp |-> toISOString(clock)]]
    IN  IF episodicThrows THEN OuterCatch(context, fault) ELSE context

\* A get_comprehensive_context that keeps the fingerprint of its query.
GetComprehensiveContextStoring(query, fault) ==
    /\ Idle
    /\ response' = [op |-> "context", isError |-> FALSE, query |-> query,
                    fault |-> fault, context |-> getComprehensiveContext(query, fault)]
    /\ vectors' = storeEmbedding(vectors, nextVectorId, 0, "query",
                                 createEmbedding(query), clock)
    /\ nextVectorId' = nextVectorId + 1
    /\ UNCHANGED <<clock, storeVars, queueVars>>

\* The get_comprehensive_context tool: `{status: 'ok', context}`.
GetComprehensiveContext(query, fault) ==
    /\ Idle
    /\ response' = [op |-> "context", isError |-> FALSE, query |-> query,
                    fault |-> fault, context |-> getComprehensiveContext(query, fault)]
    /\ UNCHANGED <<vectors, nextVectorId, clock, storeVars, queueVars>>

\* The stores of the model.  Every table holds the rows 1..n in insertion
\* order; created_at and timestamp grow with the id, and the first active file
\* was tracked again after all the others.  (Each INSERT of a handler commits
\* on its own and the episode a handler adds may fail after its record is
\* stored, so the row count of one table does not bound that of another.)
\* Fingerprints of every content type are stored through manageVector.
\* none: no fingerprint is stored; messages: only those of the messages;
\* cycle: those of the records of every table.
FingerprintPatterns == {"none", "messages", "cycle"}
ImportancePatterns == {"default", "mixed"}

RoleOf(id) == IF id % 2 = 1 THEN "user" ELSE "assistant"

\* The importance a long-term record was stored with.
ImportanceOf(id, pattern) ==
    IF pattern = "default" THEN "medium"
    ELSE CASE id % 3 = 0 -> "low"
           [] id % 3 = 1 -> "high"
           [] OTHER -> "critical"

MessageRows(n) ==
    [i \in 1..n |-> [id |-> i, role |-> RoleOf(i), content |-> "text",
                     created_at |-> i, importance |-> "low"]]

ActiveFileRows(n) ==
    [i \in 1..n |-> [id |-> i, filename |-> <<"file", i>>,
                     last_accessed |-> IF i = 1 /\ n > 1 THEN n + 1 ELSE i]]

MilestoneRows(n, pattern) ==
    [i \in 1..n |-> [id |-> i, title |-> "title", description |-> "text",
                     importance |-> ImportanceOf(i, pattern), created_at |-> i]]

DecisionRows(n, pattern) ==
    [i \in 1..n |-> [id |-> i, title |-> "title", content |-> "text",
                     reasoning |-> "text", importance |-> ImportanceOf(i, pattern),
                     created_at |-> i]]

RequirementRows(n, pattern) ==
    [i \in 1..n |-> [id |-> i, title |-> "title", content |-> "text",
                     importance |-> ImportanceOf(i, pattern), created_at |-> i]]

EpisodeRows(n) ==
    [i \in 1..n |-> [id |-> i, actor |-> "user", action |-> "note", content |-> "text",
                     timestamp |-> i, importance |-> "low", context |-> "general"]]

\* The fingerprint stored for record id: none for every fourth record.
HasFingerprint(id) == id % 4 # 0
FingerprintOf(id) ==
    CASE id % 4 = 1 -> <<1, 0>>
      [] id % 4 = 2 -> <<2, 1>>
      [] OTHER -> <<0, 1>>

\* The vectors table after storeEmbedding for each <<content id, content type>>
\* of wanted, in order.
StoreAll(wanted) ==
    [i \in 1..Len(wanted) |->
        Head(storeEmbedding(<<>>, i, wanted[i][1], wanted[i][2],
                            FingerprintOf(wanted[i][1]), i))]

\* The records of one type that have a fingerprint.
Fingerprinted(n, contentType) ==
    LET Wanted(p) == HasFingerprint(p[1])
    IN  SelectSeq([i \in 1..n |-> <<i, contentType>>], Wanted)

VectorRows(n, pattern) ==
    IF pattern = "none" THEN <<>>
    ELSE LET Stored(p) == HasFingerprint(p[1])
             ofMessages == SelectSeq([i \in 1..n |->
                               <<i, IF RoleOf(i) = "user" THEN "user_message"
                                    ELSE "assistant_message">>], Stored)
         IN  IF pattern = "messages" THEN StoreAll(ofMessages)
             ELSE StoreAll(ofMessages
                      \o Fingerprinted(n, "code_file")
                      \o Fingerprinted(n, "milestone")
                      \o Fingerprinted(n, "decision")
                      \o Fingerprinted(n, "requirement")
                      \o Fingerprinted(n, "episode"))

InitContext ==
    /\ InitQueue
    /\ \E n \in 0..MaxRows, fingerprints \in FingerprintPatterns,
          importances \in ImportancePatterns :
          /\ messages = MessageRows(n)
          /\ episodes = EpisodeRows(n)
          /\ active_files = ActiveFileRows(n)
          /\ milestones = MilestoneRows(n, importances)
          /\ decisions = DecisionRows(n, importances)
          /\ requirements = RequirementRows(n, importances)
          /\ vectors = VectorRows(n, fingerprints)
    /\ code_files = <<>>
    /\ code_snippets = <<>>
    /\ nextSnippetId = Len(code_snippets) + 1
    /\ useInMemory = FALSE
    /\ nextVectorId = Len(vectors) + 1
    /\ clock = MaxRows + 2
    /\ response = NoResponse

NextContext ==
    \/ \E query \in Texts \cup {Null}, fault \in ContextFaults :
          GetComprehensiveContext(query, fault)
    \/ ClientReads

SpecContext == InitContext /\ [][NextContext]_vars

-----------------------------------------------------------------------------
(* Claims about the context snapshot *)

IsContext == response.op = "context"

ItemPartitions == {"shortTerm", "longTerm", "episodic"}

\* The items of every list of one partition.
ItemsOf(partition) == UNION {Range(partition[list]) : list \in DOMAIN partition}

\* C8: a snapshot built without a query has the partitions and the item lists
\* of the snapshot built with any query from the same store under the same
\* answers of the store, every item of shortTerm, longTerm and episodic has
\* relevance null, and the semantic partition holds nothing.
C8_NoQueryShape ==
    (IsContext /\ ~Truthy(response.query)) =>
        LET c == response.context
        IN  /\ \A text \in Texts :
                  LET w == getComprehensiveContext(text, response.fault)
                  IN  /\ DOMAIN c = DOMAIN w
                      /\ \A p \in ItemPartitions : DOMAIN c[p] = DOMAIN w[p]
            /\ \A p \in ItemPartitions : \A item \in ItemsOf(c[p]) : item.relevance = JsNull
            /\ DOMAIN c.semantic = {}

\* A snapshot without a query with items in all six lists, from a store whose
\* snapshot with a query carries numeric relevances and semantic items.
C8_Witness ==
    /\ IsContext
    /\ ~Truthy(response.query)
    /\ response.fault = "none"
    /\ \A p \in ItemPartitions :
          \A list \in DOMAIN response.context[p] : response.context[p][list] # <<>>
    /\ DOMAIN response.context.shortTerm = {"recentMessages", "activeFiles"}
    /\ LET w == getComprehensiveContext("alpha", "none")
       IN  /\ \E item \in ItemsOf(w.shortTerm) : item.relevance # JsNull
           /\ w.semantic.similarMessages # <<>>

\* The number of rows of a table that are more recent than row.
NewerThan(rows, row, field) ==
    Cardinality({i \in 1..Len(rows) : rows[i][field] > row[field]})

\* C9: without a query, when the short-term reads were answered,
\* shortTerm.recentMessages holds the min(n, 5) most recently created of the n
\* stored messages, the i-th most recent in place i.
C9_RecentMessages ==
    (IsContext /\ ~Truthy(response.query)
       /\ response.fault \notin {"messages", "active_files"}) =>
        LET got == response.context.shortTerm.recentMessages
            n == Len(messages)
        IN  /\ Len(got) = IF n < 5 THEN n ELSE 5
            /\ \A i \in 1..Len(got) :
                  \E k \in 1..n :
                      /\ messages[k].id = got[i].id
                      /\ got[i].created_at = toISOString(messages[k].created_at)
                      /\ NewerThan(messages, messages[k], "created_at") = i - 1

\* More messages are stored than the read fetches, and five came back.
C9_Witness ==
    /\ IsContext
    /\ ~Truthy(response.query)
    /\ response.fault = "none"
    /\ Len(messages) > MessagesFetched
    /\ Len(response.context.shortTerm.recentMessages) = 5

\* The ids of the k most recent rows of a table.
MostRecentIds(rows, field, k) ==
    {rows[i].id : i \in {j \in 1..Len(rows) : NewerThan(rows, rows[j], field) < k}}

\* list of partition holds at most cap items, each with an id in among.
Within(partition, list, cap, among) ==
    list \in DOMAIN partition =>
        /\ Len(partition[list]) <= cap
        /\ \A i \in 1..Len(partition[list]) : partition[list][i].id \in among

\* C10 as stated: the caps, and every returned item among the 15 most recent
\* messages, the 10 most recent active files, milestones, decisions and
\* requirements, the 15 most recent episodes.
C10_CapsAndMostRecent ==
    IsContext =>
        LET c == response.context
        IN  /\ Within(c.shortTerm, "recentMessages", 5,
                      MostRecentIds(messages, "created_at", 15))
            /\ Within(c.shortTerm, "activeFiles", 5,
                      MostRecentIds(active_files, "last_accessed", 10))
            /\ Within(c.longTerm, "milestones", 3,
                      MostRecentIds(milestones, "created_at", 10))
            /\ Within(c.longTerm, "decisions", 3,
                      MostRecentIds(decisions, "created_at", 10))
            /\ Within(c.longTerm, "requirements", 3,
                      MostRecentIds(requirements, "created_at", 10))
            /\ Within(c.episodic, "recentEpisodes", 5,
                      MostRecentIds(episodes, "timestamp", 15))

\* C10 amended: the same, with the decisions and the requirements among the 10
\* most recent of those stored with importance medium, high or critical.
C10_CapsAndMostRecentEligible ==
    IsContext =>
        LET c == response.context
        IN  /\ Within(c.shortTerm, "recentMessages", 5,
                      MostRecentIds(messages, "created_at", 15))
            /\ Within(c.shortTerm, "activeFiles", 5,
                      MostRecentIds(active_files, "last_accessed", 10))
            /\ Within(c.longTerm, "milestones", 3,
                      MostRecentIds(milestones, "created_at", 10))
            /\ Within(c.longTerm, "decisions", 3,
                      MostRecentIds(SelectSeq(decisions, IsImportant), "created_at", 10))
            /\ Within(c.longTerm, "requirements", 3,
                      MostRecentIds(SelectSeq(requirements, IsImportant), "created_at", 10))
            /\ Within(c.episodic, "recentEpisodes", 5,
                      MostRecentIds(episodes, "timestamp", 15))

\* A query picked five of the fifteen fetched messages, one of them not among
\* the five most recent, while an older message outside the fetch is as
\* relevant; and three decisions of more than ten came back.
C10_Witness ==
    /\ IsContext
    /\ response.query = "alpha"
    /\ response.fault = "none"
    /\ Len(messages) > MessagesFetched
    /\ Len(decisions) > LongTermFetched
    /\ Len(response.context.longTerm.decisions) = 3
    /\ LET got == response.context.shortTerm.recentMessages
       IN  /\ Len(got) = 5
           /\ \E i \in 1..5 : got[i].id \notin MostRecentIds(messages, "created_at", 5)
           /\ \E j \in 1..Len(vectors) :
                 /\ vectors[j].content_type \in {"user_message", "assistant_message"}
                 /\ vectors[j].content_id \notin MostRecentIds(messages, "created_at", 15)
                 /\ cosineSimilarity(createEmbedding("alpha"),
                                     bufferToVector(vectors[j].vector))
                        >= got[1].relevance.number

\* C11: every milestone, decision and requirement of the longTerm partition
\* has importance medium, high or critical, with or without a query.
C11_LongTermImportant ==
    IsContext =>
        \A item \in ItemsOf(response.context.longTerm) :
            item.importance \in {"medium", "high", "critical"}

DomainTables == {"messages", "active_files", "milestones", "decisions", "requirements",
                 "episodes"}

SnapshotFields == {"shortTerm", "longTerm", "episodic", "semantic", "system"}

\* A read of the store failed during the call that was answered: a read of a
\* domain table, or (only a call with a query reads it) of the vectors table.
ReadFailed ==
    \/ response.fault \in DomainTables
    \/ response.fault = "vectors" /\ Truthy(response.query)

\* An error field in the snapshot or in one of its partitions.
ErrorRecorded(c) ==
    \/ "error" \in DOMAIN c
    \/ \E p \in SnapshotFields : "error" \in DOMAIN c[p]

C13_LaterPartitionsBuilt ==
    IsContext =>
        LET c == response.context
        IN  /\ response.fault \in {"messages", "active_files"} =>
                  /\ DOMAIN c.longTerm = {"milestones", "decisions", "requirements"}
                  /\ DOMAIN c.episodic = {"recentEpisodes"}
            /\ response.fault \in {"milestones", "decisions", "requirements"} =>
                  /\ DOMAIN c.episodic = {"recentEpisodes"}
                  /\ Truthy(response.query) =>
                        DOMAIN c.semantic
                            = {"similarMessages", "similarFiles", "similarSnippets"}

-----------------------------------------------------------------------------
(* The relevance scorer on its own *)

\* The thresholds of the model: 0.9, the default 0.5, 0 and -0.1.
ScoreThresholds == {90, 50, 0, -10}

\* The calls of the model: the fetched rows of a table with the content
\* types getComprehensiveContext passes for it.
ScoredTables == {"messages", "active_files", "decisions"}

ItemsFetched(table) ==
    CASE table = "messages" -> ReadMessages(messages)
      [] table = "active_files" -> ReadActiveFiles(active_files)
      [] OTHER -> ReadDecisions(decisions)

PrimaryTypeOf(table) ==
    CASE table = "messages" -> "user_message"
      [] table = "active_files" -> "code_file"
      [] OTHER -> "decision"

SecondaryTypeOf(table) == IF table = "messages" THEN "assistant_message" ELSE Null

\* One call of scoreItemsByRelevance; text = null stands for queryVector = null.
ScoreItems(table, text, threshold, readable) ==
    /\ Idle
    /\ LET queryVector == IF Truthy(text) THEN createEmbedding(text) ELSE NoVector
           items == ItemsFetched(table)
       IN  response' = [op |-> "score", isError |-> FALSE, items |-> items,
                        queryVector |-> queryVector,
                        primaryType |-> PrimaryTypeOf(table),
                        secondaryType |-> SecondaryTypeOf(table),
                        threshold |-> threshold, readable |-> readable,
                        result |-> scoreItemsByRelevance(items, queryVector, vectors,
                                      PrimaryTypeOf(table), SecondaryTypeOf(table),
                                      threshold, readable)]
    /\ UNCHANGED <<vectors, nextVectorId, clock, storeVars, queueVars>>

NextScore ==
    \/ \E table \in ScoredTables, text \in Texts \cup {Null},
          threshold \in ScoreThresholds, readable \in BOOLEAN :
          ScoreItems(table, text, threshold, readable)
    \/ ClientReads

SpecScore == InitContext /\ [][NextScore]_vars

-----------------------------------------------------------------------------
(* Claims about the relevance scorer *)

\* A call that scored: items and a query vector were given.
IsScore ==
    /\ response.op = "score"
    /\ response.items # <<>>
    /\ response.queryVector # NoVector

\* The ids that have a fingerprint of the primary or the secondary type.
FingerprintedIds ==
    {vectors[i].content_id :
        i \in {j \in 1..Len(vectors) :
                  vectors[j].content_type
                      \in {response.primaryType, response.secondaryType}}}

\* C14: when the fingerprints were read, an input item whose id has no
\* fingerprint of the primary or secondary type is absent from the result for
\* a threshold > 0 and is in the result with relevance 0 for a threshold <= 0.
C14_MissingFingerprintScoresZero ==
    (IsScore /\ response.readable) =>
        \A i \in 1..Len(response.items) :
            response.items[i].id \notin FingerprintedIds =>
                IF response.threshold > 0
                THEN \A k \in 1..Len(response.result) :
                         response.result[k].id # response.items[i].id
                ELSE \E k \in 1..Len(response.result) :
                         /\ response.result[k].id = response.items[i].id
                         /\ response.result[k].relevance = 0

\* Decisions were scored against a store that holds fingerprints of messages
\* with the same ids only; with threshold 0 every decision came back.
C14_Witness ==
    /\ IsScore
    /\ response.readable
    /\ response.primaryType = "decision"
    /\ response.threshold = 0
    /\ vectors # <<>>
    /\ FingerprintedIds = {}
    /\ Len(response.result) = Len(response.items)

\* C15: the result of a call with items and a query vector is a sub-list of
\* the items, each with a relevance >= threshold, in non-increasing order of
\* relevance, also when the fingerprints could not be read.
C15_FilteredAndSorted ==
    IsScore =>
        LET res == response.result
        IN  /\ \A k \in 1..Len(res) :
                  /\ \E i \in 1..Len(response.items) : response.items[i].id = res[k].id
                  /\ "relevance" \in DOMAIN res[k]
                  /\ res[k].relevance >= response.threshold
            /\ \A k \in 1..Len(res) - 1 : res[k].relevance >= res[k + 1].relevance

\* C17: in a snapshot built with a query every item of shortTerm, longTerm and
\* episodic carries a numeric relevance between -1 and 1.
C17_NumericRelevanceWithQuery ==
    (IsContext /\ Truthy(response.query)) =>
        \A p \in ItemPartitions :
            \A item \in ItemsOf(response.context[p]) :
                /\ item.relevance # JsNull
                /\ item.relevance.number \in (-Scale)..Scale

-----------------------------------------------------------------------------
(* The two readers together *)

NextReaders ==
    \/ \E query \in Texts \cup {Null}, fault \in ContextFaults :
          GetComprehensiveContext(query, fault)
    \/ \E table \in ScoredTables, text \in Texts \cup {Null},
          threshold \in ScoreThresholds, readable \in BOOLEAN :
          ScoreItems(table, text, threshold, readable)
    \/ ClientReads

SpecReaders == InitContext /\ [][NextReaders]_vars

\* C16: a step in which getComprehensiveContext or scoreItemsByRelevance
\* answers leaves the vectors table and every domain table as they were.
C16_ReadOnly ==
    [][response'.op \in {"context", "score"} =>
          /\ vectors' = vectors
          /\ messages' = messages
          /\ active_files' = active_files
          /\ milestones' = milestones
          /\ decisions' = decisions
          /\ requirements' = requirements
          /\ episodes' = episodes
          /\ code_files' = code_files
          /\ code_snippets' = code_snippets]_vars

\* A snapshot with scored messages was built from a store that holds
\* fingerprints.
C16_Witness ==
    /\ IsContext
    /\ response.query = "beta"
    /\ response.fault = "none"
    /\ vectors # <<>>
    /\ Len(response.context.shortTerm.recentMessages) = 5
    /\ response.context.semantic.similarMessages # <<>>

(***************************************************************************)
(* performVectorMaintenance: the orphan clean-up and the storage           *)
(* optimisation run against the vectors table.  The run is taken as one    *)
(* step: no other writer acts between its statements.                      *)
(***************************************************************************)

\* The defaults merged under the caller's options.
MaintenanceDefaults == [forceRebuild |-> FALSE, cleanOrphans |-> TRUE, optimizeStorage |-> TRUE]

\* forceRebuild drops and recreates an index only; the rows do not depend on it.
MaintenanceOptions == [forceRebuild : {FALSE}, cleanOrphans : BOOLEAN, optimizeStorage : BOOLEAN]

MessageVectorTypes == {"user_message", "assistant_message", "assistant_code_snippet"}

\* The rows of a table, as the set of their ids.
IdsOf(table) == {table[i].id : i \in 1..Len(table)}

\* LEFT JOIN messages ... WHERE content_type IN (...) AND m.id IS NULL
OrphanedMessageVectors(rows) ==
    {rows[i].id : i \in {j \in 1..Len(rows) : /\ rows[j].content_type \in MessageVectorTypes
                                              /\ rows[j].content_id \notin IdsOf(messages)}}

\* LEFT JOIN code_files ... WHERE content_type = 'code_file' AND f.id IS NULL
OrphanedFileVectors(rows) ==
    {rows[i].id : i \in {j \in 1..Len(rows) : /\ rows[j].content_type = "code_file"
                                              /\ rows[j].content_id \notin IdsOf(code_files)}}

\* LEFT JOIN code_snippets ... WHERE content_type = 'code_snippet' AND s.id IS NULL
OrphanedSnippetVectors(rows) ==
    {rows[i].id : i \in {j \in 1..Len(rows) : /\ rows[j].content_type = "code_snippet"
                                              /\ rows[j].content_id \notin IdsOf(code_snippets)}}

\* DELETE FROM vectors WHERE id = ?, once for each id.
DeleteVectors(rows, ids) == SelectSeq(rows, LAMBDA row : row.id \notin ids)

\* A clean-up that deletes nothing.
KeepOrphans(rows) == rows

\* The three orphan queries, each followed by its deletes.
CleanOrphans(rows) ==
    LET afterMessages == DeleteVectors(rows, OrphanedMessageVectors(rows))
        afterFiles == DeleteVectors(afterMessages, OrphanedFileVectors(afterMessages))
    IN  DeleteVectors(afterFiles, OrphanedSnippetVectors(afterFiles))

\* GROUP BY content_id, content_type HAVING COUNT(*) > 1
Duplicates(rows) ==
    {pair \in {<<rows[i].content_id, rows[i].content_type>> : i \in 1..Len(rows)} :
        Cardinality({i \in 1..Len(rows) :
                        <<rows[i].content_id, rows[i].content_type>> = pair}) > 1}

\* ORDER BY created_at DESC leaves the order of rows of equal created_at to
\* the engine: either by ascending or by descending id.
TieOrders == {"asc", "desc"}

\* The row a pair's query returns last, in place of the first.
OldestOf(rows, pair, tie) ==
    LET group == {i \in 1..Len(rows) : <<rows[i].content_id, rows[i].content_type>> = pair}
        first == CHOOSE i \in group : \A j \in group :
                    \/ rows[i].created_at < rows[j].created_at
                    \/ /\ rows[i].created_at = rows[j].created_at
                       /\ IF tie = "asc" THEN rows[i].id >= rows[j].id
                                         ELSE rows[i].id <= rows[j].id
    IN  rows[first].id

\* vectors[0] of a pair's query: the first row by created_at DESC.
NewestOf(rows, pair, tie) ==
    LET group == {i \in 1..Len(rows) : <<rows[i].content_id, rows[i].content_type>> = pair}
        first == CHOOSE i \in group : \A j \in group :
                    \/ rows[i].created_at > rows[j].created_at
                    \/ /\ rows[i].created_at = rows[j].created_at
                       /\ IF tie = "asc" THEN rows[i].id <= rows[j].id
                                         ELSE rows[i].id >= rows[j].id
    IN  rows[first].id

\* For each duplicated pair, every row of the pair but the first is deleted.
OptimizeStorage(rows, tie) ==
    LET duplicates == Duplicates(rows)
        redundant == {rows[i].id : i \in {j \in 1..Len(rows) :
                        /\ <<rows[j].content_id, rows[j].content_type>> \in duplicates
                        /\ rows[j].id # NewestOf(rows,
                                <<rows[j].content_id, rows[j].content_type>>, tie)}}
    IN  DeleteVectors(rows, redundant)

\* The section whose first statement throws, if one does.
MaintenanceFaults == {"none", "cleanup", "optimize"}

\* What one run does to the vectors table and what it returns.  Each section
\* has its own try/catch, which pushes a message on results.errors and lets
\* the next section run.
MaintenanceEffects(options, fault, tie) ==
    LET opts == options
        cleans == opts.cleanOrphans /\ fault # "cleanup"
        optimizes == opts.optimizeStorage /\ fault # "optimize"
        cleaned == IF cleans THEN CleanOrphans(vectors) ELSE vectors
        optimized == IF optimizes THEN OptimizeStorage(cleaned, tie) ELSE cleaned
        errors == (IF opts.cleanOrphans /\ fault = "cleanup"
                   THEN <<"Error cleaning up orphaned vectors">> ELSE <<>>)
                  \o (IF opts.optimizeStorage /\ fault = "optimize"
                      THEN <<"Error optimizing vector storage">> ELSE <<>>)
    IN  /\ vectors' = optimized
        /\ maintained' = [ran |-> TRUE, options |-> opts, indexesRebuilt |-> FALSE,
                          orphansRemoved |-> Len(vectors) - Len(cleaned),
                          vectorsOptimized |-> Len(cleaned) - Len(optimized),
                          errors |-> errors]

\* One run, called on its own.
PerformVectorMaintenance(options, fault, tie) ==
    /\ MaintenanceEffects(options, fault, tie)
    /\ UNCHANGED <<nextVectorId, clock, response, storeVars, queue, isProcessing,
                   timers, detached, runs, started, failed, nextTask, tracked,
                   indexings, fatal>>

MaintainedTypes == {"user_message", "code_snippet"}

\* The vectors tables of the family: up to MaxVectors rows, ids in insertion
\* order, any content id, type and created_at for each row (manageVector
\* stores any pair, its update rewrites created_at, and two inserts of one
\* millisecond share theirs).
VectorTables ==
    LET shapes == [content_id : {1, 2}, content_type : MaintainedTypes, created_at : {1, 2}]
        rowOf(i, shape) ==
            Head(storeEmbedding(<<>>, i, shape.content_id, shape.content_type,
                                <<i, 1>>, shape.created_at))
            @@ [metadata |-> IF i % 2 = 1 THEN "{}" ELSE Null]
    IN  UNION {{[i \in 1..n |-> rowOf(i, f[i])] : f \in [1..n -> shapes]} : n \in 0..MaxVectors}

\* One row in each owner table (id 1), so that content id 2 has no owner.
InitMaintenance ==
    /\ InitQueue
    /\ vectors \in VectorTables
    /\ nextVectorId = Len(vectors) + 1
    /\ clock = 3
    /\ response = NoResponse
    /\ messages = MessageRows(1)
    /\ milestones = <<>>
    /\ code_files = <<[id |-> 1, file_path |-> "a.js"]>>
    /\ code_snippets = <<[id |-> 1, file_id |-> 1]>>
    /\ nextSnippetId = Len(code_snippets) + 1
    /\ useInMemory = FALSE
    /\ active_files = <<>>
    /\ decisions = <<>>
    /\ requirements = <<>>
    /\ episodes = <<>>

NextMaintenance ==
    \E options \in MaintenanceOptions, fault \in MaintenanceFaults, tie \in TieOrders :
        PerformVectorMaintenance(options, fault, tie)

SpecMaintenance == InitMaintenance /\ [][NextMaintenance]_vars

(***************************************************************************)
(* Claims about performVectorMaintenance.                                  *)
(***************************************************************************)

\* The types whose fingerprints have an owning table the clean-up looks at.
OwnedTypes == MessageVectorTypes \cup {"code_file", "code_snippet"}

\* The table that holds the owners of a fingerprint type.
OwnersOf(contentType) ==
    CASE contentType \in MessageVectorTypes -> IdsOf(messages)
      [] contentType = "code_file" -> IdsOf(code_files)
      [] contentType = "code_snippet" -> IdsOf(code_snippets)
      [] OTHER -> {}

OwnerExists(row) == row.content_id \in OwnersOf(row.content_type)

\* The rows of a vectors table for the pair of the given row.
SamePair(rows, row) ==
    {i \in 1..Len(rows) : /\ rows[i].content_id = row.content_id
                          /\ rows[i].content_type = row.content_type}

\* A run with the given options that recorded no error.
Completed(run) == run.ran /\ run.errors = <<>>

\* C18: a run with the default options that completes leaves no fingerprint of
\* type user_message, assistant_message, assistant_code_snippet, code_file or
\* code_snippet whose owner row is missing, and keeps, field for field, every
\* fingerprint whose owner exists and whose pair no other fingerprint shares.
C18_OrphansGoneUniqueKept ==
    [][(NextMaintenance /\ Completed(maintained') /\ maintained'.options = MaintenanceDefaults)
        => /\ \A i \in 1..Len(vectors') :
                vectors'[i].content_type \in OwnedTypes => OwnerExists(vectors'[i])
           /\ \A i \in 1..Len(vectors) :
                (OwnerExists(vectors[i]) /\ SamePair(vectors, vectors[i]) = {i})
                    => \E j \in 1..Len(vectors') : vectors'[j] = vectors[i]]_vars

\* A completed default run that removed an orphan, removed a duplicate and kept a row.
C18_Witness ==
    /\ Completed(maintained)
    /\ maintained.options = MaintenanceDefaults
    /\ maintained.orphansRemoved > 0
    /\ maintained.vectorsOptimized > 0
    /\ \E i \in 1..Len(vectors) : vectors[i].content_type = "code_snippet" /\ vectors[i].metadata = "{}"

\* C19: after a completed run with optimizeStorage, no two fingerprints share
\* a <<content_id, content_type>> pair, every pair that was not cleaned away
\* keeps one, and the one kept has the greatest created_at the pair had.
C19_OnePerPairNewest ==
    [][(NextMaintenance /\ Completed(maintained') /\ maintained'.options.optimizeStorage)
        => /\ \A i \in 1..Len(vectors') : SamePair(vectors', vectors'[i]) = {i}
           /\ \A i \in 1..Len(vectors') : \E k \in 1..Len(vectors) :
                /\ vectors[k] = vectors'[i]
                /\ \A j \in SamePair(vectors, vectors[k]) :
                        vectors[j].created_at <= vectors[k].created_at
           /\ \A i \in 1..Len(vectors) :
                (maintained'.options.cleanOrphans /\ vectors[i].content_type \in OwnedTypes
                    /\ ~OwnerExists(vectors[i]))
                \/ SamePair(vectors', vectors[i]) # {}]_vars

\* A completed run that removed a duplicate older than the one it kept.
C19_Witness ==
    /\ Completed(maintained)
    /\ maintained.options.optimizeStorage
    /\ maintained.vectorsOptimized > 0
    /\ \E i \in 1..Len(vectors) : vectors[i].created_at = 2 /\ vectors[i].id = 1

(***************************************************************************)
(* indexCodeFile and extractCodeSnippets, each run taken whole: the runs   *)
(* follow one another, as the tasks of the queue do.                       *)
(***************************************************************************)

MaxIndexings == 3               \* indexCodeFile runs in one behaviour

IndexedFiles == Files \cup {"notes.md"}

\* languageMap[path.extname(filePath)], 'text' when the extension is not in it.
LanguageOf(file) ==
    CASE file \in {"a.js", "b.js"} -> "javascript"
      [] file = "notes.md" -> "markdown"
      [] OTHER -> "text"

\* A line of a file, by what the scan looks at: the kind of declaration the
\* language's patterns match on it with a symbol name ("none": no match),
\* whether it includes '{', whether it includes '}', whether it starts with a
\* non-blank character, and the text its fingerprint is computed from.
Line(decl, open, close, unindented, text) ==
    [decl |-> decl, open |-> open, close |-> close, unindented |-> unindented, text |-> text]

\* The files on disk; they do not change.  a.js holds a function and a class;
\* b.js holds a variable with an object literal and ends with the first line
\* of a function; notes.md is not code.
FileContent(file) ==
    CASE file = "a.js" -> << Line("function", TRUE, FALSE, TRUE, "alpha"),
                             Line("none", FALSE, FALSE, FALSE, " "),
                             Line("none", FALSE, TRUE, TRUE, " "),
                             Line("class", TRUE, FALSE, TRUE, "beta"),
                             Line("none", FALSE, TRUE, TRUE, " ") >>
      [] file = "b.js" -> << Line("variable", TRUE, FALSE, TRUE, "beta"),
                             Line("none", FALSE, TRUE, TRUE, " "),
                             Line("function", TRUE, FALSE, TRUE, "alpha") >>
      [] OTHER -> << Line("none", FALSE, FALSE, TRUE, "alpha") >>

\* currentSymbol === null
NoSymbol == [type |-> Null]

\* The scan loop from line i (1-based here; start_line and end_line are the
\* code's 0-based indexes) with the block in progress and the snippets so far:
\* the block in progress and the snippets when the loop ends.
RECURSIVE Scan(_, _, _, _, _)
Scan(lines, language, i, current, snippets) ==
    IF i > Len(lines) THEN [current |-> current, snippets |-> snippets]
    ELSE LET line == lines[i]
         IN  IF current = NoSymbol
             THEN IF line.decl # "none"
                  THEN Scan(lines, language, i + 1,
                            [type |-> line.decl, start |-> i - 1,
                             braceCount |-> IF line.open THEN 1 ELSE 0], snippets)
                  ELSE Scan(lines, language, i + 1, current, snippets)
             ELSE LET braceCount == current.braceCount + (IF line.open THEN 1 ELSE 0)
                                                       - (IF line.close THEN 1 ELSE 0)
                      isBlockEnd == \/ braceCount = 0 /\ line.close
                                    \/ language = "python" /\ line.unindented
                  IN  IF isBlockEnd \/ i = Len(lines)
                      THEN Scan(lines, language, i + 1, NoSymbol,
                                Append(snippets,
                                       [type |-> current.type, start |-> current.start,
                                        end |-> i - 1,
                                        content |-> SubSeq(lines, current.start + 1, i)]))
                      ELSE Scan(lines, language, i + 1,
                                [current EXCEPT !.braceCount = braceCount], snippets)

\* The snippets array after the loop.
ScanSnippets(lines, language) == Scan(lines, language, 1, NoSymbol, <<>>).snippets

\* A re-extraction that clears nothing.
KeepSnippets(rows, fileId) == rows

\* DELETE FROM code_snippets WHERE file_id = ?
DeleteSnippets(rows, fileId) == SelectSeq(rows, LAMBDA row : row.file_id # fileId)

\* The statement of an indexCodeFile run that throws, if one does: the
\* SELECT, UPDATE or INSERT of the code_files row, the storing of the file's
\* fingerprint, the DELETE of the old snippets, the INSERT of the first
\* snippet, the storing of the first snippet's fingerprint.
IndexFaults == {"none", "file_row", "file_vector", "delete", "snippet_insert", "snippet_vector"}

\* The store loop from snippet k: each snippet's row, then its fingerprint.
\* st holds the two tables and their counters; a statement that throws ends
\* the loop (the catch of extractCodeSnippets returns false).
RECURSIVE StoreSnippets(_, _, _, _, _, _)
StoreSnippets(snippets, k, fileId, fault, now, st) ==
    IF k > Len(snippets) THEN st
    ELSE IF k = 1 /\ fault = "snippet_insert" THEN [st EXCEPT !.ok = FALSE]
    ELSE LET inserted == Append(st.code_snippets,
                                [id |-> st.nextSnippetId, file_id |-> fileId,
                                 start_line |-> snippets[k].start,
                                 end_line |-> snippets[k].end,
                                 content |-> snippets[k].content,
                                 symbol_type |-> snippets[k].type])
             withRow == [st EXCEPT !.code_snippets = inserted,
                                   !.nextSnippetId = st.nextSnippetId + 1]
         IN  IF k = 1 /\ fault = "snippet_vector" THEN [withRow EXCEPT !.ok = FALSE]
             ELSE StoreSnippets(snippets, k + 1, fileId, fault, now,
                    [withRow EXCEPT
                        !.vectors = storeEmbedding(st.vectors, st.nextVectorId,
                                        st.nextSnippetId, "code_snippet",
                                        createEmbedding(snippets[k].content[1].text), now),
                        !.nextVectorId = st.nextVectorId + 1])

\* extractCodeSnippets: the DELETE, the scan, the store loop.
extractCodeSnippets(lines, fileId, language, fault, now, st) ==
    IF fault = "delete" THEN [st EXCEPT !.ok = FALSE]
    ELSE StoreSnippets(ScanSnippets(lines, language), 1, fileId, fault, now,
                       [st EXCEPT !.code_snippets = DeleteSnippets(st.code_snippets, fileId)])

\* SELECT id FROM code_files WHERE file_path = ?
ExistingFile(rows, file) == {i \in 1..Len(rows) : rows[i].file_path = file}

\* The id the SELECT returns, 0 when it returns no row.
SelectFileId(rows, file) ==
    IF ExistingFile(rows, file) # {}
    THEN rows[CHOOSE i \in ExistingFile(rows, file) : TRUE].id
    ELSE 0

\* A table without the UNIQUE constraint on file_path.
PathNeverTaken(rows, file) == FALSE

\* file_path TEXT UNIQUE: an INSERT of a path the table holds fails.
PathTaken(rows, file) == ExistingFile(rows, file) # {}

\* The UPDATE of the row the SELECT returned (seen is its id), or the INSERT
\* of a new row when it returned none.
UpsertCodeFile(rows, file, seen, language, size, now) ==
    IF seen # 0
    THEN [i \in 1..Len(rows) |->
            IF rows[i].id = seen
            THEN [rows[i] EXCEPT !.language = language, !.last_indexed = now, !.size = size]
            ELSE rows[i]]
    ELSE Append(rows, [id |-> Len(rows) + 1, file_path |-> file, language |-> language,
                       last_indexed |-> now, size |-> size])

\* existingFile.id, or lastInsertRowid of the INSERT.
FileIdOf(rows, seen) == IF seen # 0 THEN seen ELSE Len(rows) + 1

\* indexCodeFile from the result of its SELECT (seen) to its return: what it
\* does to the store, and the entry it leaves in indexings.  entered: the run
\* went past the close test and the reading of the file.
IndexEffects(file, seen, entered, fault) ==
    LET lines == FileContent(file)
        language == LanguageOf(file)
        fileId == FileIdOf(code_files, seen)
        rowDone == /\ entered
                   /\ fault # "file_row"
                   /\ seen = 0 => ~PathTaken(code_files, file)
        vectorDone == rowDone /\ fault # "file_vector"
        extracts == vectorDone /\ language \notin {"text", "markdown"}
        start == [code_snippets |-> code_snippets, nextSnippetId |-> nextSnippetId,
                  vectors |-> IF vectorDone
                              THEN storeEmbedding(vectors, nextVectorId, fileId, "code_file",
                                                  createEmbedding(lines[1].text), clock)
                              ELSE vectors,
                  nextVectorId |-> IF vectorDone THEN nextVectorId + 1 ELSE nextVectorId,
                  ok |-> TRUE]
        st == IF extracts
              THEN extractCodeSnippets(lines, fileId, language, fault, clock, start)
              ELSE start
    IN  /\ fault # "none" => entered
        /\ fault \in {"delete", "snippet_insert", "snippet_vector"}
                => language \notin {"text", "markdown"}
        /\ fault \in {"snippet_insert", "snippet_vector"} => ScanSnippets(lines, language) # <<>>
        /\ clock' = clock + 1
        /\ code_files' = IF rowDone
                         THEN UpsertCodeFile(code_files, file, seen, language, Len(lines), clock)
                         ELSE code_files
        /\ code_snippets' = st.code_snippets
        /\ nextSnippetId' = st.nextSnippetId
        /\ vectors' = st.vectors
        /\ nextVectorId' = st.nextVectorId
        /\ indexings' = Append(indexings, [file |-> file, skipped |-> ~entered,
                                           returned |-> vectorDone,
                                           completed |-> vectorDone /\ st.ok])
        /\ UNCHANGED <<messages, active_files, milestones, decisions, requirements, episodes,
                       useInMemory>>

\* One indexCodeFile run, from its call to its return.
IndexCodeFile(file, action, readable, fault) ==
    /\ Len(indexings) < MaxIndexings
    /\ IndexEffects(file, SelectFileId(code_files, file),
                    IndexEntry(action, readable) # "returned", fault)
    /\ UNCHANGED <<response, queue, isProcessing, timers, detached, runs, started,
                   failed, nextTask, tracked, maintained, fatal>>

InitReindex ==
    /\ InitQueue
    /\ InitStore
    /\ response = NoResponse

NextReindex ==
    \E file \in IndexedFiles, action \in FileActions, readable \in BOOLEAN, fault \in IndexFaults :
        IndexCodeFile(file, action, readable, fault)

SpecReindex == InitReindex /\ [][NextReindex]_vars

(***************************************************************************)
(* Claims about re-indexing.                                               *)
(***************************************************************************)

\* The runs of a file, as positions in indexings.
RunsOf(file) == {i \in 1..Len(indexings) : indexings[i].file = file}

\* The file's latest run went through every statement.
LatestCompleted(file) ==
    /\ RunsOf(file) # {}
    /\ indexings[CHOOSE i \in RunsOf(file) : \A j \in RunsOf(file) : j <= i].completed

\* The code_snippets rows stored under the file's code_files row.
SnippetRowsOf(file) ==
    SelectSeq(code_snippets, LAMBDA row : \E i \in ExistingFile(code_files, file) :
                                            row.file_id = code_files[i].id)

\* C20: once the latest indexing of a code file has completed, whatever the
\* number of indexings before it, the code_snippets rows of the file are the
\* snippets of one extraction of the file, in order, and each of the rows has
\* a fingerprint of type code_snippet under its id.
C20_OneExtractionPerFile ==
    \A file \in IndexedFiles :
        (LatestCompleted(file) /\ LanguageOf(file) \notin {"text", "markdown"})
            => LET rows == SnippetRowsOf(file)
                   snippets == ScanSnippets(FileContent(file), LanguageOf(file))
               IN  /\ Len(rows) = Len(snippets)
                   /\ \A k \in 1..Len(rows) :
                        /\ rows[k].start_line = snippets[k].start
                        /\ rows[k].end_line = snippets[k].end
                        /\ rows[k].symbol_type = snippets[k].type
                        /\ rows[k].content = snippets[k].content
                        /\ \E v \in 1..Len(vectors) :
                                /\ vectors[v].content_id = rows[k].id
                                /\ vectors[v].content_type = "code_snippet"

\* a.js indexed twice, both runs complete: its two rows are those of the second run.
C20_Witness ==
    /\ Cardinality({i \in RunsOf("a.js") : indexings[i].completed}) >= 2
    /\ LatestCompleted("a.js")
    /\ Len(SnippetRowsOf("a.js")) = 2
    /\ \A k \in 1..2 : SnippetRowsOf("a.js")[k].id > 2

\* The entry of the run that has just returned.
LatestIndexing == indexings[Len(indexings)]

\* C26: an indexCodeFile run with the close action, or for a file whose
\* reading fails or gives nothing, returns false and leaves code_files,
\* code_snippets and vectors as they were.
C26_SkippedRunChangesNothing ==
    [][(\E file \in IndexedFiles, action \in FileActions, readable \in BOOLEAN,
           fault \in IndexFaults :
            /\ action = "close" \/ ~readable
            /\ IndexCodeFile(file, action, readable, fault))
        => /\ ~indexings'[Len(indexings')].returned
           /\ code_files' = code_files
           /\ code_snippets' = code_snippets
           /\ vectors' = vectors]_vars

\* A skipped run of a file that an earlier run has indexed.
C26_Witness ==
    /\ indexings # <<>>
    /\ LatestIndexing.skipped
    /\ ~LatestIndexing.returned
    /\ ExistingFile(code_files, LatestIndexing.file) # {}
    /\ SnippetRowsOf(LatestIndexing.file) # <<>>

(***************************************************************************)
(* Overlapping indexCodeFile runs: a run started from trackActiveFile's    *)
(* timer does not wait for the run before it, so a run's SELECT of the     *)
(* code_files row and the statements after it are two steps, and other     *)
(* runs may act in between.                                                *)
(***************************************************************************)

\* A run passes the close test, reads its file and awaits its SELECT.
IndexSelect(file) ==
    /\ Len(indexings) + Cardinality(runs) < MaxIndexings
    /\ runs' = runs \cup {[via |-> "timer", id |-> Len(indexings) + Cardinality(runs) + 1,
                           file |-> file, pc |-> "upsert",
                           seen |-> SelectFileId(code_files, file)]}
    /\ UNCHANGED <<vectors, nextVectorId, clock, storeVars, response, queue, isProcessing,
                   timers, detached, started, failed, nextTask, tracked, maintained, fatal,
                   indexings>>

\* The run goes on from the row its SELECT returned to its return.
IndexResume(r, fault) ==
    /\ r \in runs
    /\ r.pc = "upsert"
    /\ IndexEffects(r.file, r.seen, TRUE, fault)
    /\ runs' = runs \ {r}
    /\ UNCHANGED <<response, queue, isProcessing, timers, detached, started, failed,
                   nextTask, tracked, maintained, fatal>>

NextOverlap ==
    \/ \E file \in IndexedFiles : IndexSelect(file)
    \/ \E r \in runs, fault \in IndexFaults : IndexResume(r, fault)

SpecOverlap == InitReindex /\ [][NextOverlap]_vars

\* No two code_files rows hold the same path.
OneRowPerPath ==
    \A i, j \in 1..Len(code_files) : code_files[i].file_path = code_files[j].file_path => i = j

\* Every snippet and every code_file fingerprint is stored under the id of a
\* code_files row.
FileReferencesResolve ==
    /\ \A k \in 1..Len(code_snippets) : code_snippets[k].file_id \in IdsOf(code_files)
    /\ \A v \in 1..Len(vectors) :
            vectors[v].content_type = "code_file" => vectors[v].content_id \in IdsOf(code_files)

\* Every code_files row is still there after the step, with its id and its path.
FileRowsKeepIdentity ==
    \A i \in 1..Len(code_files) :
        /\ i <= Len(code_files')
        /\ code_files'[i].id = code_files[i].id
        /\ code_files'[i].file_path = code_files[i].file_path
        /\ DOMAIN code_files'[i] = DOMAIN code_files[i]

\* C27: whatever indexings have run, one after the other or overlapping,
\* code_files holds at most one row for a path, a row never changes its id or
\* its path (a re-indexing rewrites language, size and last_indexed only),
\* and the snippets and code_file fingerprints stored under a file id are
\* stored under the id of a row of the table.
C27_OneRowPerPathIdKept ==
    /\ [](OneRowPerPath /\ FileReferencesResolve)
    /\ [][FileRowsKeepIdentity]_vars

\* a.js indexed twice by overlapping runs that both found no row: one row,
\* with fingerprints and snippets under its id.
C27_Witness ==
    /\ Cardinality(RunsOf("a.js")) >= 2
    /\ \E i \in RunsOf("a.js") : ~indexings[i].returned
    /\ \E i \in RunsOf("a.js") : indexings[i].completed
    /\ Len(code_files) = 2
    /\ code_files[2].file_path = "a.js"
    /\ SnippetRowsOf("a.js") # <<>>

(***************************************************************************)
(* groupSimilarSnippetsByFile on its own, over every short list of         *)
(* snippets.                                                               *)
(***************************************************************************)

MaxSnippets == 3                \* snippets in one call

SnippetPaths == {"a.js", "b.js", "undefined"}
SnippetSimilarities == {60, 80, 100}

\* The lists of the family: the i-th snippet has id i, any path (or none, for
\* a snippet whose record was not found) and any similarity.
SnippetLists ==
    LET shapes == [path : SnippetPaths, similarity : SnippetSimilarities]
        snippetOf(i, shape) ==
            IF shape.path = "undefined"
            THEN [id |-> i, similarity |-> shape.similarity]
            ELSE [id |-> i, similarity |-> shape.similarity, file_path |-> shape.path]
    IN  UNION {{[i \in 1..n |-> snippetOf(i, f[i])] : f \in [1..n -> shapes]} : n \in 0..MaxSnippets}

\* One call.
GroupSnippets(snippets) ==
    /\ Idle
    /\ response' = [op |-> "group", isError |-> FALSE, snippets |-> snippets,
                    result |-> groupSimilarSnippetsByFile(snippets)]
    /\ UNCHANGED <<vectors, nextVectorId, clock, storeVars, queueVars>>

NextGroup ==
    \/ \E snippets \in SnippetLists : GroupSnippets(snippets)
    \/ ClientReads

SpecGroup == InitReindex /\ [][NextGroup]_vars

\* C30: every snippet given is in exactly one group, the group of its
\* file_path, and the groups hold nothing else; a group's relevance is the
\* greatest similarity among its snippets; the groups come in non-increasing
\* order of relevance.
C30_GroupedByFileMaxSorted ==
    response.op = "group" =>
        LET snippets == response.snippets
            groups == response.result
            Places(s) == {<<g, k>> \in (1..Len(groups)) \X (1..Len(snippets)) :
                            k <= Len(groups[g].snippets) /\ groups[g].snippets[k] = s}
        IN  /\ \A i \in 1..Len(snippets) :
                    /\ Cardinality(Places(snippets[i])) = 1
                    /\ \A pl \in Places(snippets[i]) :
                            groups[pl[1]].file_path = FilePathOf(snippets[i])
            /\ \A g \in 1..Len(groups) :
                    /\ groups[g].snippets # <<>>
                    /\ \A k \in 1..Len(groups[g].snippets) :
                        /\ groups[g].snippets[k] \in Range(snippets)
                        /\ groups[g].snippets[k].similarity <= groups[g].relevance
                    /\ \E k \in 1..Len(groups[g].snippets) :
                        groups[g].snippets[k].similarity = groups[g].relevance
            /\ \A g \in 1..(Len(groups) - 1) : groups[g].relevance >= groups[g + 1].relevance

\* Two groups, the second file's snippets first in the input, and a group
\* whose greatest similarity is not that of its first snippet.
C30_Witness ==
    /\ response.op = "group"
    /\ Len(response.result) = 2
    /\ Len(response.snippets) = 3
    /\ FilePathOf(response.snippets[1]) # response.result[1].file_path
    /\ \E g \in 1..2 : /\ Len(response.result[g].snippets) = 2
                       /\ response.result[g].snippets[1].similarity < response.result[g].relevance

(***************************************************************************)
(* The scan loop of extractCodeSnippets on its own, over every short file. *)
(***************************************************************************)

MaxLines == 3                   \* lines of a scanned file

ScanLanguages == {"javascript", "python"}

\* The lines of the family: with or without a declaration, a '{', a '}', a
\* first character that is not blank.
LineShapes ==
    {Line(decl, open, close, unindented, " ") :
        decl \in {"none", "function"}, open \in BOOLEAN, close \in BOOLEAN,
        unindented \in BOOLEAN}

ScannedFiles == UNION {[1..n -> LineShapes] : n \in 0..MaxLines}

\* One scan: the loop's variables when it ends.
ScanLines(lines, language) ==
    /\ Idle
    /\ LET ended == Scan(lines, language, 1, NoSymbol, <<>>)
       IN  response' = [op |-> "scan", isError |-> FALSE, lines |-> lines,
                        language |-> language, current |-> ended.current,
                        snippets |-> ended.snippets]
    /\ UNCHANGED <<vectors, nextVectorId, clock, storeVars, queueVars>>

NextScan ==
    \/ \E lines \in ScannedFiles, language \in ScanLanguages : ScanLines(lines, language)
    \/ ClientReads

SpecScan == InitReindex /\ [][NextScan]_vars

\* C29: the scan is in a block only between a declaration and the snippet
\* that closes it, so every declaration that opens a block has produced its
\* snippet exactly when no block is in progress once the last line has been
\* processed, a block opened on the last line included.
C29_EveryBlockFlushed ==
    response.op = "scan" => response.current = NoSymbol

(***************************************************************************)
(* manageVector store, update and delete, each call taken whole: the       *)
(* caller sends a call after it has read the response of the one before.   *)
(***************************************************************************)

MaxUpdates == 2                 \* successful manageVector updates in one behaviour

VectorIds == 1..MaxVectors

\* A look-up that finds a row for every id.
AlwaysFound(rows, vectorId) == TRUE

\* SELECT id FROM vectors WHERE id = ?  (existingVector is truthy)
VectorFound(rows, vectorId) == \E i \in 1..Len(rows) : rows[i].id = vectorId

\* UPDATE vectors SET vector = ?, metadata = ?, created_at = ? WHERE id = ?
UpdateVector(rows, vectorId, vector, now) ==
    [i \in 1..Len(rows) |->
        IF rows[i].id = vectorId
        THEN [rows[i] EXCEPT !.vector = vectorToBuffer(vector), !.created_at = now]
        ELSE rows[i]]

\* manageVector update
ManageVectorUpdate(vectorId, vector) ==
    /\ Idle
    /\ clock - nextVectorId < MaxUpdates
    /\ IF VectorFound(vectors, vectorId)
       THEN /\ vectors' = UpdateVector(vectors, vectorId, vector, clock)
            /\ clock' = clock + 1
            /\ response' = [op |-> "update", isError |-> FALSE, vectorId |-> vectorId]
       ELSE /\ response' = [op |-> "update", isError |-> TRUE, vectorId |-> vectorId,
                            error |-> "not found"]
            /\ UNCHANGED <<vectors, clock>>
    /\ UNCHANGED <<nextVectorId, storeVars, queueVars>>

\* manageVector delete
ManageVectorDelete(vectorId) ==
    /\ Idle
    /\ IF VectorFound(vectors, vectorId)
       THEN /\ vectors' = DeleteVectors(vectors, {vectorId})
            /\ response' = [op |-> "delete", isError |-> FALSE, vectorId |-> vectorId,
                            deleted |-> TRUE]
       ELSE /\ response' = [op |-> "delete", isError |-> TRUE, vectorId |-> vectorId,
                            error |-> "not found"]
            /\ UNCHANGED vectors
    /\ UNCHANGED <<nextVectorId, clock, storeVars, queueVars>>

NextVectors ==
    \/ \E t \in SearchTypes, v \in StoredVecs : ManageVectorStore(1, t, v)
    \/ \E id \in VectorIds, v \in StoredVecs : ManageVectorUpdate(id, v)
    \/ \E id \in VectorIds : ManageVectorDelete(id)
    \/ ClientReads

SpecVectors == InitSearch /\ [][NextVectors]_vars

\* C24: an update or a delete for an id the vectors table does not hold
\* answers with the not-found error and leaves the table as it was; so does a
\* delete of an id that an earlier delete removed.
C24_MissingIdRejected ==
    [][(response'.op \in {"update", "delete"} /\ response'.vectorId \notin IdsOf(vectors))
        => /\ response'.isError
           /\ response'.error = "not found"
           /\ vectors' = vectors]_vars

\* A delete refused for an id that was stored and has been deleted, while
\* another row is in the table.
C24_Witness ==
    /\ response.op = "delete"
    /\ response.isError
    /\ response.vectorId < nextVectorId
    /\ vectors # <<>>

\* C25: a successful store appends one row under an id no row has or had,
\* leaves every row that was there as it was, and does so when the table
\* already holds a fingerprint of the same content id and content type.
C25_StoreAppendsOneRow ==
    [][(response'.op = "store" /\ ~response'.isError)
        => /\ Len(vectors') = Len(vectors) + 1
           /\ SubSeq(vectors', 1, Len(vectors)) = vectors
           /\ vectors'[Len(vectors')].id >= nextVectorId
           /\ vectors'[Len(vectors')].id \notin IdsOf(vectors)]_vars

\* Three stores for one pair have left three rows.
C25_Witness ==
    /\ response.op = "store"
    /\ Len(vectors) = 3
    /\ \A i \in 1..Len(vectors) : /\ vectors[i].content_id = vectors[1].content_id
                                  /\ vectors[i].content_type = vectors[1].content_type

(***************************************************************************)
(* trackActiveFile in both modes.  The indexing runs it starts in database *)
(* mode stay pending here: they write neither active_files nor episodes.   *)
(***************************************************************************)

InitTrack ==
    /\ InitQueue
    /\ vectors = <<>>
    /\ nextVectorId = 1
    /\ clock = 1
    /\ response = NoResponse
    /\ messages = <<>>
    /\ active_files = <<>>
    /\ milestones = <<>>
    /\ decisions = <<>>
    /\ requirements = <<>>
    /\ episodes = <<>>
    /\ code_files = <<>>
    /\ code_snippets = <<>>
    /\ nextSnippetId = 1
    /\ useInMemory \in BOOLEAN

NextTrack ==
    \/ \E filename \in Files, action \in FileActions, fault \in TrackFaults :
            TrackActiveFile(filename, action, fault)
    \/ ClientReads

SpecTrack == InitTrack /\ [][NextTrack]_vars

\* The active-file records of a filename, as positions.
RecordsOf(rows, filename) == {i \in 1..Len(rows) : rows[i].filename = filename}

\* No filename has two records, and every filename of a file-tracking episode
\* has one.
OneRecordPerFilename ==
    /\ \A i, j \in 1..Len(active_files) :
            active_files[i].filename = active_files[j].filename => i = j
    /\ \A e \in 1..Len(episodes) : RecordsOf(active_files, episodes[e].content) # {}

\* A call that answers ok leaves one record for its filename, stamped with
\* the call's time, leaves the other records alone and appends one episode.
TrackedOnce ==
    \A filename \in Files, action \in FileActions :
        TrackActiveFile(filename, action, "none")
            => /\ Cardinality(RecordsOf(active_files', filename)) = 1
               /\ \A i \in RecordsOf(active_files', filename) :
                        active_files'[i].last_accessed = clock
               /\ \A i \in 1..Len(active_files) :
                        active_files[i].filename # filename
                            => i <= Len(active_files') /\ active_files'[i] = active_files[i]
               /\ Len(episodes') = Len(episodes) + 1
               /\ SubSeq(episodes', 1, Len(episodes)) = episodes
               /\ episodes'[Len(episodes')].content = filename
               /\ episodes'[Len(episodes')].action = action
               /\ episodes'[Len(episodes')].timestamp = clock

\* C28: in database mode and in in-memory mode alike, whatever
\* trackActiveFile calls have been answered, no filename has two active-file
\* records and every filename tracked has one; a call answered ok leaves the
\* record of its filename with the time of that call and appends exactly one
\* episode.
C28_OneRecordOneEpisode ==
    /\ []OneRecordPerFilename
    /\ [][TrackedOnce]_vars

\* In-memory mode, one filename tracked twice: one record, with the time of
\* the second call, and two episodes.
C28_Witness ==
    /\ useInMemory
    /\ Len(episodes) = 2
    /\ episodes[1].content = episodes[2].content
    /\ Len(active_files) = 1
    /\ active_files[1].last_accessed = episodes[2].timestamp

C28_WitnessDatabase ==
    /\ ~useInMemory
    /\ Len(episodes) = 2
    /\ episodes[1].content = episodes[2].content
    /\ Len(active_files) = 1
    /\ active_files[1].last_accessed = episodes[2].timestamp

(***************************************************************************)
(* The handlers that store messages (initConversation, storeUserMessage,   *)
(* endConversation), trackActiveFile, and the setTimeout(0) callbacks they *)
(* leave behind.  Database mode.                                           *)
(***************************************************************************)

MaxMessages == 2                \* messages stored and files tracked in one behaviour

\* The message texts: "beta" is code-related and holds two code blocks.
MessageTexts == {"alpha", "beta"}

\* extractCodeBlocks(content) when isCodeRelatedQuery(content), else none.
CodeBlocksOf(text) == IF text = "beta" THEN <<"alpha", "beta">> ELSE <<>>

\* INSERT INTO messages (role, content, created_at, importance, metadata)
InsertMessage(rows, role, content, importance, now) ==
    Append(rows, [id |-> Len(rows) + 1, role |-> role, content |-> content,
                  created_at |-> now, importance |-> importance])

\* The setTimeout(0) callback that fingerprints a message.
EmbedTask(messageId, contentType, content) ==
    [kind |-> "embed", messageId |-> messageId, contentType |-> contentType,
     content |-> content]

\* initConversation: the INSERT of the user message and the response.  The
\* banner and the context of the response are reads; the triggerCodeIndexing
\* it may start behind setTimeout(0) writes the task queue only.  No
\* fingerprinting is started.
InitConversation(content, fault) ==
    /\ Idle
    /\ Len(messages) < MaxMessages
    /\ clock' = IF fault = "insert" THEN clock ELSE clock + 1
    /\ messages' = IF fault = "insert" THEN messages
                   ELSE InsertMessage(messages, "user", content, "low", clock)
    /\ response' = [op |-> "initConversation", isError |-> fault # "none"]
    /\ UNCHANGED <<vectors, nextVectorId, active_files, milestones, decisions, requirements,
                   episodes, code_files, code_snippets, nextSnippetId, useInMemory,
                   queueVars>>

\* storeUserMessage: the INSERT, the detached fingerprinting, the response; in
\* in-memory mode the push on inMemoryStore.messages and the response.
StoreUserMessage(content, fault) ==
    /\ Idle
    /\ Len(messages) < MaxMessages
    /\ useInMemory => fault = "none"
    /\ clock' = IF fault = "insert" THEN clock ELSE clock + 1
    /\ messages' = IF fault = "insert" THEN messages
                   ELSE IF useInMemory
                   THEN Append(messages, [role |-> "user", content |-> content,
                                          created_at |-> clock, importance |-> "low",
                                          metadata |-> Null])
                   ELSE InsertMessage(messages, "user", content, "low", clock)
    /\ detached' = IF fault = "insert" \/ useInMemory THEN detached
                   ELSE Append(detached,
                               EmbedTask(Len(messages) + 1, "user_message", content))
    /\ response' = [op |-> "storeUserMessage", isError |-> fault # "none"]
    /\ UNCHANGED <<vectors, nextVectorId, active_files, milestones, decisions, requirements,
                   episodes, code_files, code_snippets, nextSnippetId, useInMemory,
                   queue, isProcessing, timers, runs, started, failed, nextTask, tracked,
                   maintained, fatal, indexings>>

EndFaults == {"none", "message", "milestone", "episode"}

\* endConversation: the INSERT of the assistant message and its detached
\* fingerprinting, the INSERT of the milestone, the INSERT of the episode,
\* the response.  fault: the INSERT that throws, if one does.
EndConversation(content, fault) ==
    /\ Idle
    /\ Len(messages) < MaxMessages
    /\ clock' = IF fault = "message" THEN clock ELSE clock + 1
    /\ messages' = IF fault = "message" THEN messages
                   ELSE InsertMessage(messages, "assistant", content, "medium", clock)
    /\ detached' = IF fault = "message" THEN detached
                   ELSE Append(detached,
                               EmbedTask(Len(messages) + 1, "assistant_message", content))
    /\ milestones' = IF fault \in {"message", "milestone"} THEN milestones
                     ELSE Append(milestones,
                                 [id |-> Len(milestones) + 1, title |-> "title",
                                  description |-> "text", importance |-> "medium",
                                  created_at |-> clock])
    /\ episodes' = IF fault # "none" THEN episodes
                   ELSE Append(episodes,
                               [id |-> Len(episodes) + 1, actor |-> "assistant",
                                action |-> "completion", content |-> "Completed: title",
                                timestamp |-> clock, importance |-> "medium",
                                context |-> "conversation"])
    /\ response' = [op |-> "endConversation", isError |-> fault # "none"]
    /\ UNCHANGED <<vectors, nextVectorId, active_files, decisions, requirements,
                   code_files, code_snippets, nextSnippetId, useInMemory,
                   queue, isProcessing, timers, runs, started, failed, nextTask, tracked,
                   maintained, fatal, indexings>>

\* A callback whose catch changes the answer of the call that left it.
TaskCatchAnswers(answer, threw) ==
    IF threw THEN [op |-> answer.op, isError |-> TRUE] ELSE answer

\* The catch of a callback: it logs, and the answer of the call is what it was.
TaskCatch(answer, threw) == answer

\* storeEmbedding for each code block of an assistant message, from block k.
RECURSIVE StoreBlocks(_, _, _, _, _, _)
StoreBlocks(rows, id, messageId, blocks, k, now) ==
    IF k > Len(blocks) THEN rows
    ELSE StoreBlocks(storeEmbedding(rows, id, messageId, "assistant_code_snippet",
                                    createEmbedding(blocks[k]), now),
                     id + 1, messageId, blocks, k + 1, now)

\* What a fingerprinting callback throws at, if anything: createEmbedding or
\* storeEmbedding for the message, storeEmbedding for the first code block.
EmbedFaults == {"none", "message", "block"}

\* The oldest pending callback runs, and it is a fingerprinting one.
DetachedEmbed(fault) ==
    /\ detached # <<>>
    /\ "kind" \in DOMAIN Head(detached)
    /\ LET d == Head(detached)
           blocks == IF d.contentType = "assistant_message" /\ fault = "none"
                     THEN CodeBlocksOf(d.content) ELSE <<>>
           stored == IF fault = "message" THEN vectors
                     ELSE storeEmbedding(vectors, nextVectorId, d.messageId, d.contentType,
                                         createEmbedding(d.content), clock)
       IN  /\ fault = "block" => /\ d.contentType = "assistant_message"
                                 /\ CodeBlocksOf(d.content) # <<>>
           /\ vectors' = StoreBlocks(stored, nextVectorId + 1, d.messageId, blocks, 1, clock)
           /\ nextVectorId' = nextVectorId + (IF fault = "message" THEN 0 ELSE 1) + Len(blocks)
    /\ detached' = Tail(detached)
    /\ clock' = clock + 1
    /\ response' = TaskCatch(response, fault # "none")
    /\ UNCHANGED <<storeVars, queue, isProcessing, timers, runs, started, failed, nextTask,
                   tracked, maintained, fatal, indexings>>

\* The oldest pending callback runs, and it is trackActiveFile's
\* indexCodeFile(filename, action), taken whole.
DetachedIndex(readable, fault) ==
    /\ detached # <<>>
    /\ "file" \in DOMAIN Head(detached)
    /\ IndexEffects(Head(detached).file, SelectFileId(code_files, Head(detached).file),
                    IndexEntry(Head(detached).action, readable) # "returned", fault)
    /\ detached' = Tail(detached)
    /\ response' = TaskCatch(response, fault # "none")
    /\ UNCHANGED <<queue, isProcessing, timers, runs, started, failed, nextTask, tracked,
                   maintained, fatal>>

\* The calls of one behaviour: MaxMessages of them write.
CallsLeft == Len(messages) + tracked < MaxMessages

\* The statements of a detached indexCodeFile that create or store a
\* fingerprint, as the ones that throw.
IndexEmbedFaults == {"none", "file_vector", "snippet_vector"}

NextConversation ==
    \/ \E content \in MessageTexts, fault \in {"none", "insert"} :
            CallsLeft /\ InitConversation(content, fault)
    \/ \E content \in MessageTexts, fault \in {"none", "insert"} :
            CallsLeft /\ StoreUserMessage(content, fault)
    \/ \E content \in MessageTexts, fault \in EndFaults :
            CallsLeft /\ EndConversation(content, fault)
    \/ \E filename \in Files, action \in FileActions, fault \in TrackFaults :
            CallsLeft /\ TrackActiveFile(filename, action, fault)
    \/ \E fault \in EmbedFaults : DetachedEmbed(fault)
    \/ \E readable \in BOOLEAN, fault \in IndexEmbedFaults : DetachedIndex(readable, fault)
    \/ ClientReads

\* The empty store, in database mode.
InitDatabase == InitTrack /\ ~useInMemory

SpecConversation == InitDatabase /\ [][NextConversation]_vars

\* The same with a store whose writes all succeed and with every pending
\* callback run in the end.
NextSuccessful ==
    \/ \E content \in MessageTexts : CallsLeft /\ InitConversation(content, "none")
    \/ \E content \in MessageTexts : CallsLeft /\ StoreUserMessage(content, "none")
    \/ \E content \in MessageTexts : CallsLeft /\ EndConversation(content, "none")
    \/ \E filename \in Files, action \in FileActions :
            CallsLeft /\ TrackActiveFile(filename, action, "none")
    \/ DetachedEmbed("none")
    \/ \E readable \in BOOLEAN : DetachedIndex(readable, "none")
    \/ ClientReads

FairConversation ==
    /\ InitDatabase
    /\ [][NextSuccessful]_vars
    /\ WF_vars(DetachedEmbed("none"))
    /\ WF_vars(\E readable \in BOOLEAN : DetachedIndex(readable, "none"))
    /\ WF_vars(ClientReads)

(***************************************************************************)
(* Claims about the detached fingerprinting.                               *)
(***************************************************************************)

\* The fingerprint type of a message.
MessageTypeOf(message) ==
    IF message.role = "user" THEN "user_message" ELSE "assistant_message"

\* The message with this id is stored and a fingerprint of its type is
\* stored under its id.
MessageFingerprinted(id) ==
    /\ id <= Len(messages)
    /\ \E v \in 1..Len(vectors) : /\ vectors[v].content_id = id
                                  /\ vectors[v].content_type = MessageTypeOf(messages[id])

\* C21: when the store's writes succeed and pending callbacks are run in the
\* end, every message stored, by whichever of initConversation,
\* storeUserMessage and endConversation, comes to have a fingerprint of its
\* type under its id.
C21_EveryMessageFingerprinted ==
    \A id \in 1..MaxMessages : (id <= Len(messages)) ~> MessageFingerprinted(id)

\* A callback is run: the oldest pending one leaves the list.
TaskRuns == detached # <<>> /\ detached' = Tail(detached)

\* A handler leaves a callback behind.
TaskLeft == Len(detached') = Len(detached) + 1

-----------------------------------------------------------------------------
(***************************************************************************)
(* Failures inside background work: the queued and the detached            *)
(* indexCodeFile runs with what they write, triggerCodeIndexing, and the    *)
(* performVectorMaintenance task of scheduleVectorMaintenance.  Once the    *)
(* uncaughtException handler has run the process is gone and nothing more   *)
(* happens.                                                                 *)
(***************************************************************************)

MaxBackground == 3              \* trackActiveFile and addTask calls in one behaviour

\* The process runs, and (Starts) it is within the calls of one behaviour.
Alive == ~fatal
Starts == Alive /\ tracked + nextTask < MaxBackground

\* The statement of an indexCodeFile run that throws, if one does: the
\* storeEmbedding of the file (indexCodeFile's catch), the INSERT of a snippet
\* (extractCodeSnippets' catch).
BackgroundFaults == {"none", "file_vector", "snippet_insert"}

\* The try blocks around the failing statement of a run, innermost first,
\* without the one of whoever started the run.
WorkFrames(r, fault) ==
    IF r.pc = "maintain" THEN <<"performVectorMaintenance">>
    ELSE IF fault = "snippet_insert" THEN <<"extractCodeSnippets", "indexCodeFile">>
    ELSE <<"indexCodeFile">>

\* The try block of whoever started the run.
RootFrame(r) == IF r.via = "queue" THEN "processQueue" ELSE "trackCallback"

\* The callback of scheduleVectorMaintenance's setInterval or setTimeout:
\* backgroundTasks.addTask(async () => { await performVectorMaintenance() }).
ScheduleMaintenance(readable) ==
    LET s == addTask(QueueState,
                     [id |-> nextTask + 1, file |-> Null, action |-> "maintain"], readable)
    IN  /\ nextTask < MaxIndexerTasks
        /\ queue' = s.queue
        /\ isProcessing' = s.isProcessing
        /\ runs' = s.runs
        /\ started' = s.started
        /\ nextTask' = nextTask + 1
        /\ UNCHANGED <<vectors, nextVectorId, clock, storeVars, response, timers,
                       detached, failed, tracked, maintained, indexings, fatal>>

\* triggerCodeIndexing, from the timer of initConversation.  threw: its read
\* of active_files throws, which its own catch logs.
BackgroundTrigger(keep, readable, threw) ==
    IF threw
    THEN /\ fatal' = (fatal \/ Escapes(<<"triggerCodeIndexing", "triggerCallback">>, TRUE))
         /\ UNCHANGED <<vectors, nextVectorId, clock, storeVars, response, queue,
                        isProcessing, timers, detached, runs, started, failed, nextTask,
                        tracked, maintained, indexings>>
    ELSE TriggerCodeIndexing(keep, readable, MaxIndexerTasks)

\* A run ends, with what it wrote: an indexCodeFile run (fault: its statement
\* that throws) or a performVectorMaintenance run with its default options
\* (mfault: its section that throws).  An exception no frame of the run takes
\* rejects the task's promise; for a queued run processQueue's catch and
\* finally follow.
BackgroundEnds(r, fault, mfault) ==
    LET threw == fault # "none" \/ mfault # "none"
        frames == WorkFrames(r, fault)
    IN  /\ r \in runs
        /\ runs' = runs \ {r}
        /\ IF r.pc = "maintain"
           THEN /\ fault = "none"
                /\ MaintenanceEffects(MaintenanceDefaults, mfault, "asc")
                /\ UNCHANGED <<nextVectorId, clock, storeVars, indexings>>
           ELSE /\ mfault = "none"
                /\ IndexEffects(r.file, SelectFileId(code_files, r.file),
                                r.pc # "returned", fault)
                /\ UNCHANGED maintained
        /\ IF r.via = "queue"
           THEN /\ isProcessing' = FALSE
                /\ timers' = timers + WakeUps(queue)
                /\ failed' = IF Escapes(frames, threw) THEN failed \cup {r.id} ELSE failed
           ELSE UNCHANGED <<isProcessing, timers, failed>>
        /\ fatal' = (fatal \/ Escapes(Append(frames, RootFrame(r)), threw))
        /\ UNCHANGED <<response, queue, detached, started, nextTask, tracked>>

NextBackground ==
    \/ \E f \in Files : Starts /\ TrackActiveFile(f, "edit", "none")
    \/ \E readable \in BOOLEAN : Alive /\ DetachedFire(readable)
    \/ \E threw \in BOOLEAN : Starts /\ BackgroundTrigger({1}, TRUE, threw)
    \/ Starts /\ ScheduleMaintenance(TRUE)
    \/ Alive /\ TimerFire(TRUE)
    \/ \E r \in runs, fault \in BackgroundFaults, mfault \in {"none", "cleanup"} :
          Alive /\ BackgroundEnds(r, fault, mfault)
    \/ Alive /\ ClientReads

\* From the state in which both files have been tracked and nothing has been
\* indexed or queued yet.
SpecBackground == InitTasks /\ [][NextBackground]_vars

(***************************************************************************)
(* Claims about failures in background work.                               *)
(***************************************************************************)

\* The indexCodeFile runs so far in which a statement threw.
FailedIndexings == {i \in 1..Len(indexings) : /\ ~indexings[i].skipped
                                              /\ ~indexings[i].completed}

\* C23: whatever statement of background work throws (in an indexCodeFile run
\* started by the queue or by trackActiveFile, in extractCodeSnippets, in
\* triggerCodeIndexing, in performVectorMaintenance), the process-level handler
\* never runs; and the queue is left able to go on: it is marked busy only
\* while a task it started is running, and a task that waits in an idle queue
\* has a wake-up pending.
C23_BackgroundFailuresContained ==
    /\ ~fatal
    /\ isProcessing => \E r \in runs : r.via = "queue"
    /\ (queue # <<>> /\ ~isProcessing) => timers > 0

\* Both queued tasks have run and both failed: an indexCodeFile whose
\* extractCodeSnippets threw after the file's fingerprint was stored, and the
\* maintenance task with an error in a section; and a trackActiveFile call
\* made after the failed indexing has been answered ok.
C23_Witness ==
    /\ Len(started) = 2
    /\ runs = {}
    /\ ~isProcessing
    /\ indexings # <<>>
    /\ FailedIndexings = 1..Len(indexings)
    /\ maintained.ran
    /\ maintained.errors # <<>>
    /\ vectors # <<>>
    /\ \E e \in 1..Len(episodes) : episodes[e].timestamp > vectors[1].created_at
    /\ response.op = "trackActiveFile"
    /\ ~response.isError


-----------------------------------------------------------------------------
(***************************************************************************)
(* createEmbedding as it computes: the text is a sequence of character      *)
(* codes (NoString for an argument that is none), an element is a number    *)
(* in hundredths, and sin, cos and tanh are rational approximations in      *)
(* integer arithmetic.                                                      *)
(***************************************************************************)

MaxChars == 2                   \* characters of a text
MaxDimensions == 2              \* the dimensions argument

\* The characters: space, "A", "a", "b".
CharCodes == {32, 65, 97, 98}

\* An argument that is no string: undefined, null.
NoString == <<-1>>

CharTexts == UNION {[1..n -> CharCodes] : n \in 0..MaxChars}

\* String.prototype.toLowerCase
toLowerCase(chars) ==
    [j \in 1..Len(chars) |-> IF chars[j] >= 65 /\ chars[j] <= 90 THEN chars[j] + 32
                             ELSE chars[j]]

\* String.prototype.trim: the white space at both ends is dropped.
RECURSIVE trim(_)
trim(chars) ==
    IF chars = <<>> THEN chars
    ELSE IF Head(chars) = 32 THEN trim(Tail(chars))
    ELSE IF chars[Len(chars)] = 32 THEN trim(SubSeq(chars, 1, Len(chars) - 1))
    ELSE chars

HalfTurn == 314                 \* pi, in hundredths of a radian

\* Math.sin of an angle in hundredths of a radian, in hundredths
\* (Bhaskara's approximation on each half turn).
Sin(a) ==
    LET r == a % (2 * HalfTurn)
        h == IF r < HalfTurn THEN r ELSE r - HalfTurn
        p == h * (HalfTurn - h)
        v == (1600 * p) \div (5 * HalfTurn * HalfTurn - 4 * p)
    IN  IF r < HalfTurn THEN v ELSE -v

\* Math.cos
Cos(a) == Sin(a + HalfTurn \div 2)

\* Math.tanh of a number in hundredths, in hundredths (a Pade approximant,
\* odd, held at 1 beyond three).
Tanh(v) ==
    LET m == IF v < 0 THEN -v ELSE v
        t == IF m >= 300 THEN 100
             ELSE (m * (270000 + m * m)) \div (270000 + 9 * m * m)
    IN  IF v < 0 THEN -t ELSE t

\* The inner loop: the sum over the characters from j on (j counts from 0),
\* for element i (from 0).
RECURSIVE ElementSum(_, _, _)
ElementSum(chars, i, j) ==
    IF j >= Len(chars) THEN 0
    ELSE (Sin(chars[j + 1] * (i + 1)) * Cos(j)) \div 100 + ElementSum(chars, i, j + 1)

\* A fallback that forgets the length.
EmptyVector(dimensions) == <<>>

\* new Float32Array(dimensions): all zero.
ZeroVector(dimensions) == [i \in 1..dimensions |-> 0]

\* createEmbedding(text, dimensions).  toLowerCase of an argument that is no
\* string throws, and the catch returns the zero vector.
Embedding(text, dimensions) ==
    IF text = NoString THEN ZeroVector(dimensions)
    ELSE LET normalizedText == trim(toLowerCase(text))
         IN  [i \in 1..dimensions |-> Tanh(ElementSum(normalizedText, i - 1, 0))]

\* A call of createEmbedding, and the same call once more before the result
\* is read.
CreateEmbedding(text, dimensions) ==
    /\ Idle
    /\ response' = [op |-> "createEmbedding", text |-> text, dimensions |-> dimensions,
                    vector |-> Embedding(text, dimensions), again |-> FALSE]
    /\ UNCHANGED <<vectors, nextVectorId, clock, storeVars, queueVars>>

CreateEmbeddingAgain ==
    /\ response.op = "createEmbedding"
    /\ ~response.again
    /\ response' = [op |-> "createEmbedding", text |-> response.text,
                    dimensions |-> response.dimensions,
                    vector |-> Embedding(response.text, response.dimensions),
                    again |-> TRUE, first |-> response.vector]
    /\ UNCHANGED <<vectors, nextVectorId, clock, storeVars, queueVars>>

NextEmbedding ==
    \/ \E text \in CharTexts \cup {NoString}, dimensions \in 0..MaxDimensions :
            CreateEmbedding(text, dimensions)
    \/ CreateEmbeddingAgain
    \/ ClientReads

SpecEmbedding == InitSearch /\ [][NextEmbedding]_vars

(***************************************************************************)
(* Claims about createEmbedding.                                           *)
(***************************************************************************)

-----------------------------------------------------------------------------
(***************************************************************************)
(* Vectors without a direction: cosineSimilarity on its own, and the        *)
(* search and the scoring with such a query over the stores of InitContext. *)
(***************************************************************************)

\* The arguments of the direct calls: zero vectors, vectors with a
\* direction, and a vector of another length.
NormVecs == {<<0, 0>>, <<1, 0>>, <<1, 1>>, <<0, 0, 0>>, <<1, 0, 1>>}

\* The norm is zero: every element is.
ZeroNorm(v) == \A i \in 1..Len(v) : v[i] = 0

\* One call of cosineSimilarity(a, b).
CosineSimilarity(a, b) ==
    /\ Idle
    /\ response' = [op |-> "cosineSimilarity", a |-> a, b |-> b,
                    similarity |-> cosineSimilarity(a, b)]
    /\ UNCHANGED <<vectors, nextVectorId, clock, storeVars, queueVars>>

NextNorms ==
    \/ \E a \in NormVecs, b \in NormVecs : CosineSimilarity(a, b)
    \/ \E q \in NormVecs, t \in SearchTypes \cup {Null}, th \in Thresholds,
          fault \in {"none", "index"} :
          ManageVectorSearch(q, t, SimilarMessagesLimit, th, fault)
    \/ \E table \in ScoredTables, text \in Texts, threshold \in Thresholds :
          ScoreItems(table, text, threshold, TRUE)
    \/ ClientReads

SpecNorms == InitContext /\ [][NextNorms]_vars

(***************************************************************************)
(* Claims about zero norms.                                                *)
(***************************************************************************)

\* C32: cosineSimilarity is exactly 0 when either vector has a zero norm or
\* the lengths differ; so a search with a zero query vector and a threshold
\* above 0 returns no fingerprint on either path, and the scoring with a zero
\* query vector and a threshold above 0 keeps no item.
C32_ZeroNormMatchesNothing ==
    /\ (/\ response.op = "cosineSimilarity"
        /\ \/ ZeroNorm(response.a)
           \/ ZeroNorm(response.b)
           \/ Len(response.a) # Len(response.b)) => response.similarity = 0
    /\ (/\ response.op = "search"
        /\ ZeroNorm(response.query)
        /\ response.threshold > 0) => response.results = <<>>
    /\ (/\ response.op = "score"
        /\ ZeroNorm(response.queryVector)
        /\ response.threshold > 0) => response.result = <<>>

\* A scoring with a zero query vector over items one of which has a
\* fingerprint.
C32_Witness ==
    /\ response.op = "score"
    /\ ZeroNorm(response.queryVector)
    /\ response.threshold > 0
    /\ \E i \in 1..Len(response.items) : \E v \in 1..Len(vectors) :
          /\ vectors[v].content_id = response.items[i].id
          /\ vectors[v].content_type = response.primaryType

-----------------------------------------------------------------------------
(***************************************************************************)
(* The tools: what the list-tools handler advertises and what the switch   *)
(* of the call-tool handler does with a name.  Database mode, valid         *)
(* arguments, a store whose statements succeed.                             *)
(***************************************************************************)

\* Object.values(MEMORY_TOOLS).map(tool => tool.name)
ListTools ==
    {"generateBanner", "checkHealth", "initConversation", "endConversation",
     "storeUserMessage", "storeAssistantMessage", "trackActiveFile", "getRecentMessages",
     "getActiveFiles", "storeMilestone", "storeDecision", "storeRequirement",
     "recordEpisode", "getRecentEpisodes", "getComprehensiveContext", "getMemoryStats",
     "manageVector"}

\* The case labels of the switch that only read the store.
ReadCases ==
    {"generateBanner", "checkHealth", "getRecentMessages", "getActiveFiles",
     "getRecentEpisodes", "getComprehensiveContext", "getMemoryStats"}

\* The case labels that insert one record and the episode that notes it.
RecordCases == {"storeMilestone", "storeDecision", "storeRequirement"}

\* The case labels of the switch.
ToolCases ==
    ReadCases \cup RecordCases
        \cup {"initConversation", "storeUserMessage", "trackActiveFile", "recordEpisode",
              "endConversation", "manageVector"}

\* `switch (name)`: the case taken.
CaseOf(name) == IF name \in ToolCases THEN name ELSE "default"

\* INSERT INTO episodes by the handlers that note what they stored.
NoteEpisode(rows, actor, action, content, importance, context, now) ==
    Append(rows, [id |-> Len(rows) + 1, actor |-> actor, action |-> action,
                  content |-> content, timestamp |-> now, importance |-> importance,
                  context |-> context])

\* storeMilestone, storeDecision, storeRequirement.
StoreRecord(name) ==
    /\ Idle
    /\ clock' = clock + 1
    /\ milestones' = IF name # "storeMilestone" THEN milestones
                     ELSE Append(milestones,
                                 [id |-> Len(milestones) + 1, title |-> "title",
                                  description |-> "text", importance |-> "medium",
                                  created_at |-> clock])
    /\ decisions' = IF name # "storeDecision" THEN decisions
                    ELSE Append(decisions,
                                [id |-> Len(decisions) + 1, title |-> "title",
                                 content |-> "text", reasoning |-> Null,
                                 importance |-> "medium", created_at |-> clock])
    /\ requirements' = IF name # "storeRequirement" THEN requirements
                       ELSE Append(requirements,
                                   [id |-> Len(requirements) + 1, title |-> "title",
                                    content |-> "text", importance |-> "medium",
                                    created_at |-> clock])
    /\ episodes' = NoteEpisode(episodes, "system",
                               CASE name = "storeMilestone" -> "milestone_created"
                                 [] name = "storeDecision" -> "decision_made"
                                 [] OTHER -> "requirement_added",
                               "title", "medium",
                               CASE name = "storeMilestone" -> "milestone-tracking"
                                 [] name = "storeDecision" -> "decision-tracking"
                                 [] OTHER -> "requirement-tracking",
                               clock)
    /\ response' = [op |-> name, isError |-> FALSE]
    /\ UNCHANGED <<vectors, nextVectorId, messages, active_files, code_files, code_snippets,
                   nextSnippetId, useInMemory, queueVars>>

\* recordEpisode
RecordEpisode ==
    /\ Idle
    /\ clock' = clock + 1
    /\ episodes' = NoteEpisode(episodes, "user", "note", "text", "low", Null, clock)
    /\ response' = [op |-> "recordEpisode", isError |-> FALSE]
    /\ UNCHANGED <<vectors, nextVectorId, messages, active_files, milestones, decisions,
                   requirements, code_files, code_snippets, nextSnippetId, useInMemory,
                   queueVars>>

\* A handler that reads: the store is as it was.
ReadTool(name) ==
    /\ Idle
    /\ response' = [op |-> name, isError |-> FALSE]
    /\ UNCHANGED <<vectors, nextVectorId, clock, storeVars, queueVars>>

\* default: the 'Unknown tool' error.
UnknownTool(name) ==
    /\ Idle
    /\ response' = [op |-> name, isError |-> TRUE, unknown |-> TRUE]
    /\ UNCHANGED <<vectors, nextVectorId, clock, storeVars, queueVars>>

\* The call-tool handler with a name and valid arguments.
CallTool(name) ==
    LET case == CaseOf(name)
    IN  CASE case \in ReadCases -> ReadTool(name)
          [] case \in RecordCases -> StoreRecord(name)
          [] case = "recordEpisode" -> RecordEpisode
          [] case = "initConversation" ->
                \E content \in MessageTexts : InitConversation(content, "none")
          [] case = "storeUserMessage" ->
                \E content \in MessageTexts : StoreUserMessage(content, "none")
          [] case = "endConversation" ->
                \E content \in MessageTexts : EndConversation(content, "none")
          [] case = "trackActiveFile" ->
                \E filename \in Files, action \in FileActions :
                    TrackActiveFile(filename, action, "none")
          [] case = "manageVector" ->
                \E v \in StoredVecs : ManageVectorStore(1, "user_message", v)
          [] OTHER -> UnknownTool(name)

\* The calls of one behaviour that write.
WritesLeft == clock <= MaxMessages

NextTools ==
    \/ \E name \in ListTools \cup {"noSuchTool"} : WritesLeft /\ CallTool(name)
    \/ DetachedEmbed("none")
    \/ \E readable \in BOOLEAN : DetachedIndex(readable, "none")
    \/ ClientReads

SpecTools == InitDatabase /\ [][NextTools]_vars

(***************************************************************************)
(* Claims about the tools.                                                 *)
(***************************************************************************)

\* C33: a call of an advertised tool with valid arguments never ends in the
\* 'Unknown tool' error, and a call of storeAssistantMessage answered leaves
\* an assistant message stored.
C33_AdvertisedToolsExecuted ==
    response.op \in ListTools =>
        /\ "unknown" \notin DOMAIN response
        /\ response.op = "storeAssistantMessage" =>
              \E i \in 1..Len(messages) : messages[i].role = "assistant"

-----------------------------------------------------------------------------
(***************************************************************************)
(* manageVector update and delete with calls in flight together: a call    *)
(* suspends at its SELECT and at its UPDATE or DELETE, and another call's   *)
(* statements may run in between.  The calls are kept in runs, each with    *)
(* its position and, once answered, its answer.                             *)
(***************************************************************************)

MaxCalls == 2                   \* update and delete calls in one behaviour

\* The update and delete calls so far.
VectorCalls == {r \in runs : r.via = "manageVector"}

\* The call arrives and its SELECT id FROM vectors WHERE id = ? completes: a
\* missing row is answered with the error, a row found takes the call to its
\* write.
VectorSelect(operation, vectorId) ==
    /\ Cardinality(VectorCalls) < MaxCalls
    /\ LET found == VectorFound(vectors, vectorId)
           call == [via |-> "manageVector", id |-> Cardinality(VectorCalls) + 1,
                    operation |-> operation, vectorId |-> vectorId,
                    pc |-> IF found THEN "write" ELSE "answered",
                    ok |-> found, affected |-> FALSE]
       IN  /\ runs' = runs \cup {call}
           /\ response' = IF found THEN response
                          ELSE [op |-> operation, isError |-> TRUE, vectorId |-> vectorId,
                                error |-> "not found"]
    /\ UNCHANGED <<vectors, nextVectorId, clock, storeVars, queue, isProcessing, timers,
                   detached, started, failed, nextTask, tracked, maintained, indexings,
                   fatal>>

\* The call's UPDATE or DELETE ... WHERE id = ? completes, whatever number of
\* rows it changed, and the call is answered ok.
VectorWrite(r) ==
    /\ r \in VectorCalls
    /\ r.pc = "write"
    /\ vectors' = IF r.operation = "delete" THEN DeleteVectors(vectors, {r.vectorId})
                  ELSE UpdateVector(vectors, r.vectorId, <<1, 0>>, clock)
    /\ clock' = clock + 1
    /\ runs' = (runs \ {r})
                  \cup {[r EXCEPT !.pc = "answered",
                                  !.affected = VectorFound(vectors, r.vectorId)]}
    /\ response' = IF r.operation = "delete"
                   THEN [op |-> "delete", isError |-> FALSE, vectorId |-> r.vectorId,
                         deleted |-> TRUE]
                   ELSE [op |-> "update", isError |-> FALSE, vectorId |-> r.vectorId]
    /\ UNCHANGED <<nextVectorId, storeVars, queue, isProcessing, timers, detached, started,
                   failed, nextTask, tracked, maintained, indexings, fatal>>

NextConcurrent ==
    \/ \E v \in StoredVecs : ManageVectorStore(1, "user_message", v)
    \/ \E operation \in {"update", "delete"}, id \in VectorIds : VectorSelect(operation, id)
    \/ \E r \in runs : VectorWrite(r)
    \/ ClientReads

SpecConcurrent == InitSearch /\ [][NextConcurrent]_vars

(***************************************************************************)
(* Claims about manageVector calls in flight together.                     *)
(***************************************************************************)

\* The calls answered with status ok.
AnsweredOk == {r \in VectorCalls : r.pc = "answered" /\ r.ok}

\* C34: a call answered ok changed the row it names: no two delete calls of
\* one id are both answered deleted: true, and no update is answered ok whose
\* UPDATE ran after a delete had removed the row.
C34_OkMeansAffected ==
    /\ \A a \in AnsweredOk, b \in AnsweredOk :
          (a.operation = "delete" /\ b.operation = "delete" /\ a.vectorId = b.vectorId)
              => a = b
    /\ \A r \in AnsweredOk : r.operation = "update" => r.affected

-----------------------------------------------------------------------------
(***************************************************************************)
(* performVectorMaintenance statement by statement, with the statements of  *)
(* other work in between: each SELECT and each DELETE of a run is a step,   *)
(* and the run remembers what its last SELECT returned.                     *)
(***************************************************************************)

\* The ids of a query's rows, in rowid order.
RECURSIVE Ascending(_)
Ascending(ids) ==
    IF ids = {} THEN <<>>
    ELSE LET least == CHOOSE i \in ids : \A j \in ids : i <= j
         IN  <<least>> \o Ascending(ids \ {least})

\* The rows of the GROUP BY query, one after the other.
RECURSIVE Listed(_)
Listed(pairs) ==
    IF pairs = {} THEN <<>>
    ELSE LET pair == CHOOSE p \in pairs : TRUE
         IN  <<pair>> \o Listed(pairs \ {pair})

\* The maintenance run in progress, if there is one.
MaintenanceRuns == {r \in runs : r.via = "maintenance"}

\* The task of scheduleVectorMaintenance starts performVectorMaintenance().
MaintenanceStarts ==
    /\ MaintenanceRuns = {}
    /\ ~maintained.ran
    /\ runs' = runs \cup {[via |-> "maintenance", phase |-> "messages", pending |-> <<>>,
                           pairs |-> <<>>]}
    /\ UNCHANGED <<vectors, nextVectorId, clock, response, storeVars, queue, isProcessing,
                   timers, detached, started, failed, nextTask, tracked, maintained,
                   indexings, fatal>>

\* The rows every vectors[i] with i >= 1 of a pair's query: all but the first.
Redundant(rows, pair, tie) ==
    {rows[i].id : i \in {j \in 1..Len(rows) :
                            /\ <<rows[j].content_id, rows[j].content_type>> = pair
                            /\ rows[j].id # NewestOf(rows, pair, tie)}}

\* The next statement of the run completes: the DELETE of the next row its
\* last SELECT returned, or else the next SELECT; after the last pair the run
\* returns.
MaintenanceStep(r, tie) ==
    /\ r \in MaintenanceRuns
    /\ LET next(run) == (runs \ {r}) \cup {run}
       IN  IF r.pending # <<>>
           THEN /\ vectors' = DeleteVectors(vectors, {Head(r.pending)})
                /\ runs' = next([r EXCEPT !.pending = Tail(r.pending)])
                /\ UNCHANGED maintained
           ELSE /\ UNCHANGED vectors
                /\ CASE r.phase = "messages" ->
                          /\ runs' = next([r EXCEPT
                                 !.phase = "files",
                                 !.pending = Ascending(OrphanedMessageVectors(vectors))])
                          /\ UNCHANGED maintained
                     [] r.phase = "files" ->
                          /\ runs' = next([r EXCEPT
                                 !.phase = "snippets",
                                 !.pending = Ascending(OrphanedFileVectors(vectors))])
                          /\ UNCHANGED maintained
                     [] r.phase = "snippets" ->
                          /\ runs' = next([r EXCEPT
                                 !.phase = "duplicates",
                                 !.pending = Ascending(OrphanedSnippetVectors(vectors))])
                          /\ UNCHANGED maintained
                     [] r.phase = "duplicates" ->
                          /\ runs' = next([r EXCEPT !.phase = "pairs",
                                                    !.pairs = Listed(Duplicates(vectors))])
                          /\ UNCHANGED maintained
                     [] r.phase = "pairs" /\ r.pairs # <<>> ->
                          /\ runs' = next([r EXCEPT
                                 !.pairs = Tail(r.pairs),
                                 !.pending = Ascending(Redundant(vectors, Head(r.pairs),
                                                                 tie))])
                          /\ UNCHANGED maintained
                     [] OTHER ->
                          /\ runs' = runs \ {r}
                          /\ maintained' = [ran |-> TRUE, options |-> MaintenanceDefaults,
                                            indexesRebuilt |-> FALSE, errors |-> <<>>]
    /\ UNCHANGED <<nextVectorId, clock, response, storeVars, queue, isProcessing, timers,
                   detached, started, failed, nextTask, tracked, indexings, fatal>>

\* The content ids manageVector store is called with.
StoredContentIds == {1, 2}

NextInterleaved ==
    \/ MaintenanceStarts
    \/ \E r \in runs, tie \in TieOrders : MaintenanceStep(r, tie)
    \/ \E content \in MessageTexts : WritesLeft /\ StoreUserMessage(content, "none")
    \/ DetachedEmbed("none")
    \/ \E id \in StoredContentIds :
          WritesLeft /\ ManageVectorStore(id, "user_message", <<1, 0>>)
    \/ WritesLeft /\ Idle /\ IndexCodeFile("a.js", "edit", TRUE, "none")
    \/ ClientReads

SpecInterleaved == InitDatabase /\ [][NextInterleaved]_vars

(***************************************************************************)
(* Claims about maintenance interleaved with other work.                   *)
(***************************************************************************)

\* The fingerprints a step deletes.
Deleted == {i \in 1..Len(vectors) : vectors[i].id \notin IdsOf(vectors')}

\* C35: a fingerprint that maintenance deletes is, in the state in which it is
\* deleted, not the only fingerprint of an owner record that exists.
C35_NoSoleFingerprintDeleted ==
    [][\A i \in Deleted :
          ~(OwnerExists(vectors[i]) /\ SamePair(vectors, vectors[i]) = {i})]_vars

-----------------------------------------------------------------------------
(***************************************************************************)
(* Maintenance runs over the fingerprints of assistant messages and of     *)
(* their code blocks.                                                       *)
(***************************************************************************)

NextBlocks ==
    \/ \E content \in MessageTexts : EndConversation(content, "none")
    \/ DetachedEmbed("none")
    \/ \E options \in MaintenanceOptions, tie \in TieOrders :
          PerformVectorMaintenance(options, "none", tie)
    \/ ClientReads

SpecBlocks == InitDatabase /\ [][NextBlocks]_vars

\* The fingerprints of the code blocks of the assistant messages stored.
BlockVectors ==
    {i \in 1..Len(vectors) : /\ vectors[i].content_type = "assistant_code_snippet"
                             /\ vectors[i].content_id \in IdsOf(messages)}

\* C36: a maintenance run leaves in place every fingerprint stored for a code
\* block of an assistant message that exists.
C36_BlockFingerprintsSurvive ==
    [][maintained' # maintained =>
          \A i \in BlockVectors : vectors[i].id \in IdsOf(vectors')]_vars

-----------------------------------------------------------------------------
(***************************************************************************)
(* The semantic partition over a store whose files are indexed again and   *)
(* whose messages are fingerprinted, with no maintenance run in between.    *)
(***************************************************************************)

NextStale ==
    \/ \E file \in Files : Idle /\ IndexCodeFile(file, "edit", TRUE, "none")
    \/ \E content \in MessageTexts : StoreUserMessage(content, "none")
    \/ DetachedEmbed("none")
    \/ \E query \in MessageTexts : GetComprehensiveContext(query, "none")
    \/ ClientReads

SpecStale == InitDatabase /\ [][NextStale]_vars

(***************************************************************************)
(* Claims about the semantic partition and the owners of fingerprints.     *)
(***************************************************************************)

\* C37: every item of the semantic partition carries the fields of its owner
\* record: a similar message its content, a similar file its path, and every
\* snippet group a defined file_path.
C37_SemanticItemsHaveOwners ==
    (response.op = "context" /\ "similarMessages" \in DOMAIN response.context.semantic) =>
        LET semantic == response.context.semantic
        IN  /\ \A i \in 1..Len(semantic.similarMessages) :
                  "content" \in DOMAIN semantic.similarMessages[i]
            /\ \A i \in 1..Len(semantic.similarFiles) :
                  "path" \in DOMAIN semantic.similarFiles[i]
            /\ \A g \in 1..Len(semantic.similarSnippets) :
                  semantic.similarSnippets[g].file_path # "undefined"

-----------------------------------------------------------------------------
(***************************************************************************)
(* The relevance of the active files: files are tracked, indexed behind    *)
(* the tracking call, and the context is asked for with a query.            *)
(***************************************************************************)

NextActive ==
    \/ \E filename \in Files, action \in FileActions :
          CallsLeft /\ TrackActiveFile(filename, action, "none")
    \/ DetachedIndex(TRUE, "none")
    \/ \E query \in MessageTexts : GetComprehensiveContext(query, "none")
    \/ ClientReads

SpecActive == InitDatabase /\ [][NextActive]_vars

\* The similarities between a query and the code_file fingerprints of the
\* code_files record of a path.
FileSimilarities(query, path) ==
    {cosineSimilarity(createEmbedding(query), bufferToVector(vectors[v].vector)) :
        v \in {w \in 1..Len(vectors) :
                 /\ vectors[w].content_type = "code_file"
                 /\ \E c \in 1..Len(code_files) : /\ code_files[c].file_path = path
                                                  /\ code_files[c].id = vectors[w].content_id}}

\* C38: with a query, the relevance of an active file of the snapshot is the
\* similarity between the query and a code_file fingerprint of the code_files
\* record with the file's path.
C38_ActiveFileScoredByOwnFingerprint ==
    (response.op = "context" /\ "activeFiles" \in DOMAIN response.context.shortTerm) =>
        \A i \in 1..Len(response.context.shortTerm.activeFiles) :
            LET file == response.context.shortTerm.activeFiles[i]
            IN  \E similarity \in FileSimilarities(response.query, file.filename) :
                    file.relevance = Number(similarity)

-----------------------------------------------------------------------------
(***************************************************************************)
(* Claims about the indexing jobs of the background queue.                 *)
(***************************************************************************)

\* The indexing jobs of the queue that wait or run: the file of each, by the
\* id addTask gave the job.
IndexingJobs ==
    {<<queue[i].id, queue[i].file>> : i \in 1..Len(queue)}
        \cup {<<r.id, r.file>> : r \in {q \in QueuedRuns : q.pc # "returned"}}

\* C39: no two indexing jobs of the background queue that wait or run are
\* jobs for the same file.
C39_OneJobPerFile ==
    \A a \in IndexingJobs, b \in IndexingJobs : a[2] = b[2] => a = b

-----------------------------------------------------------------------------
(***************************************************************************)
(* In-memory fallback mode: initializeDatabase set useInMemory and the      *)
(* handlers with an in-memory branch work on inMemoryStore's arrays.        *)
(* getComprehensiveContext has no such branch: it reads through db.         *)
(***************************************************************************)

RecentLimits == {1, 10}         \* getRecentMessages' limit: one, and the default

\* What db is in in-memory mode: null or a client that cannot connect, whose
\* reads throw, or a database that was reached but not set up, which answers
\* with its own rows (none here) and not with inMemoryStore's.
DatabaseOutcomes == {"throws", "answers"}

\* getRecentMessages without an importance: the latest messages, newest first.
GetRecentMessages(limit) ==
    /\ Idle
    /\ response' = [op |-> "getRecentMessages", isError |-> FALSE,
                    messages |-> LET rows == Slice(SortDesc(ByCreatedAt(messages)), limit)
                                 IN  [i \in 1..Len(rows) |->
                                        [rows[i] EXCEPT !.created_at = toISOString(@)]]]
    /\ UNCHANGED <<vectors, nextVectorId, clock, storeVars, queueVars>>

\* The snapshot getComprehensiveContext builds without a query from a
\* database that holds no rows.
EmptySnapshot ==
    [shortTerm |-> [recentMessages |-> <<>>, activeFiles |-> <<>>],
     longTerm |-> [milestones |-> <<>>, decisions |-> <<>>, requirements |-> <<>>],
     episodic |-> [recentEpisodes |-> <<>>],
     semantic |-> EmptyObject,
     system |-> [healthy |-> TRUE, timestamp |-> toISOString(clock)]]

\* The get_comprehensive_context tool without a query in in-memory mode: the
\* first read through db throws to the outer catch, or the reads answer with
\* the rows of the database.
ContextInMemory(outcome) ==
    /\ Idle
    /\ useInMemory
    /\ response' = [op |-> "context", isError |-> FALSE, query |-> Null, fault |-> outcome,
                    context |-> IF outcome = "throws"
                                THEN getComprehensiveContext(Null, "messages")
                                ELSE EmptySnapshot]
    /\ UNCHANGED <<vectors, nextVectorId, clock, storeVars, queueVars>>

InitInMemory == InitTrack /\ useInMemory

NextInMemory ==
    \/ \E content \in MessageTexts : StoreUserMessage(content, "none")
    \/ \E filename \in Files, action \in FileActions :
          TrackActiveFile(filename, action, "none")
    \/ \E limit \in RecentLimits : GetRecentMessages(limit)
    \/ \E outcome \in DatabaseOutcomes : ContextInMemory(outcome)
    \/ ClientReads

SpecInMemory == InitInMemory /\ [][NextInMemory]_vars

(***************************************************************************)
(* Claims about in-memory mode.                                            *)
(***************************************************************************)

\* The contents of the messages of a list.
ContentsOf(list) == {list[i].content : i \in 1..Len(list)}

\* C40: in in-memory mode, once messages were stored with storeUserMessage,
\* the snapshot of getComprehensiveContext without a query carries no error
\* field and holds them in its shortTerm.recentMessages, as the answer of
\* getRecentMessages holds the latest.
C40_InMemoryMessagesInContext ==
    /\ (useInMemory /\ response.op = "getRecentMessages" /\ response.messages # <<>>) =>
          messages[Len(messages)].content \in ContentsOf(response.messages)
    /\ (useInMemory /\ response.op = "context" /\ messages # <<>>) =>
          /\ "error" \notin DOMAIN response.context
          /\ "recentMessages" \in DOMAIN response.context.shortTerm
          /\ ContentsOf(messages) \subseteq ContentsOf(response.context.shortTerm.recentMessages)

=============================================================================
